---------------------------- MODULE Spec2Model ----------------------------
(*
  Credential and protocol-parameter generation of the core configuration
  dialog (CoreConfigModal), and its form: the configuration document, the
  inbound tags extracted from it and the save request.  Strings are
  sequences of one-character strings, byte buffers are sequences of numbers
  in 0..255.
*)
EXTENDS Integers, Sequences, FiniteSets, TLC

(***************************************************************************)
(* Bounds of the model                                                     *)
(***************************************************************************)
\* number of distinct outputs the random byte source can produce
MaxSeed == 2
\* number of inputs in one behaviour: generation calls, edits of the selectors, of the
\* VLESS builder options and of the form values, edit requests and submits
MaxInputs == 3
\* number of edits of the form values in one behaviour
MaxFormInputs == 2
\* length of the free-text ticket strings fed to the encoder
MaxTicketLen == 2
\* length of the free-text padding strings fed to the encoder
MaxPadLen == 3

(***************************************************************************)
(* Program constants                                                       *)
(***************************************************************************)
DEFAULT_VLESS_HANDSHAKE == <<"m","l","k","e","m","7","6","8","x","2","5","5","1","9","p","l","u","s">>
DEFAULT_VLESS_ENCRYPTION == <<"n","a","t","i","v","e">>
DEFAULT_VLESS_PADDING == <<"1","0","0","-","1","1","1","-","1","1","1","1",".","7","5","-","0","-","1","1","1",".","5","0","-","0","-","3","3","3","3">>
DEFAULT_VLESS_SERVER_TICKET == <<"6","0","0","s">>
VLESS_RESUME_OPTIONS == << <<"0","r","t","t">>, <<"1","r","t","t">> >>
DEFAULT_VLESS_RESUME == VLESS_RESUME_OPTIONS[1]
VLESS_HANDSHAKE_OPTIONS == << DEFAULT_VLESS_HANDSHAKE >>
VLESS_ENCRYPTION_METHODS == << <<"n","a","t","i","v","e">>, <<"x","o","r","p","u","b">>, <<"r","a","n","d","o","m">> >>
SHADOWSOCKS_ENCRYPTION_METHODS ==
  << [value |-> "2022-blake3-aes-128-gcm", label |-> "2022-blake3-aes-128-gcm", length |-> 16],
     [value |-> "2022-blake3-aes-256-gcm", label |-> "2022-blake3-aes-256-gcm", length |-> 32] >>
\* new Uint8Array(8) of generateShortId
SHORT_ID_BYTES == 8
\* new Uint8Array(64) of generateVLESSEncryption
MLKEM768_SEED_BYTES == 64
\* secret key length of generateKeyPair (@stablelib/x25519)
X25519_KEY_BYTES == 32
\* seed length of generateMldsa65 (@/utils/mldsa65)
MLDSA65_SEED_BYTES == 32

createDefaultVlessOptions ==
  [ handshakeMethod      |-> DEFAULT_VLESS_HANDSHAKE,
    encryptionMethod     |-> DEFAULT_VLESS_ENCRYPTION,
    serverTicket         |-> DEFAULT_VLESS_SERVER_TICKET,
    clientTicket         |-> DEFAULT_VLESS_RESUME,
    serverPadding        |-> DEFAULT_VLESS_PADDING,
    clientPadding        |-> DEFAULT_VLESS_PADDING,
    includeServerPadding |-> FALSE,
    includeClientPadding |-> FALSE ]

(***************************************************************************)
(* String helpers (String.prototype.trim / split / join)                   *)
(***************************************************************************)
WHITESPACE == {" ", "\t", "\n"}

RECURSIVE TrimStart(_)
TrimStart(s) ==
  IF s = <<>> THEN <<>>
  ELSE IF Head(s) \in WHITESPACE THEN TrimStart(Tail(s)) ELSE s

RECURSIVE TrimEnd(_)
TrimEnd(s) ==
  IF s = <<>> THEN <<>>
  ELSE IF s[Len(s)] \in WHITESPACE THEN TrimEnd(SubSeq(s, 1, Len(s) - 1)) ELSE s

\* value.trim()
Trim(s) == TrimEnd(TrimStart(s))

\* value.split(sep): scans left to right, cur is the piece being collected
RECURSIVE SplitFrom(_, _, _)
SplitFrom(s, sep, cur) ==
  IF s = <<>> THEN << cur >>
  ELSE IF Head(s) = sep THEN << cur >> \o SplitFrom(Tail(s), sep, <<>>)
  ELSE SplitFrom(Tail(s), sep, Append(cur, Head(s)))

Split(s, sep) == SplitFrom(s, sep, <<>>)

\* segments.join(sep)
RECURSIVE Join(_, _)
Join(segs, sep) ==
  IF segs = <<>> THEN <<>>
  ELSE IF Len(segs) = 1 THEN segs[1]
  ELSE segs[1] \o << sep >> \o Join(Tail(segs), sep)

\* segments.map(f)
MapTrim(segs) == [i \in 1..Len(segs) |-> Trim(segs[i])]

NonEmptySegment(segment) == Len(segment) > 0

(***************************************************************************)
(* Protocol parameter encoder (closures of generateVLESSEncryption)        *)
(***************************************************************************)
\* mutant: the empty pieces are kept
SanitizeSegments_KeepEmpty(value) == MapTrim(Split(value, "."))

\* mutant: the pieces are not trimmed
SanitizeSegments_NoTrim(value) == SelectSeq(Split(value, "."), NonEmptySegment)

SanitizeSegments(value) == SelectSeq(MapTrim(Split(value, ".")), NonEmptySegment)

\* `!value` holds of undefined and of ''; the options state only holds strings
\* mutant: the value is trimmed and the fallback is never used
NormalizeOption_TrimOnly(value, fallback) == Trim(value)

NormalizeOption(value, fallback) ==
  IF value = <<>> THEN fallback
  ELSE LET trimmed == Trim(value)
       IN  IF Len(trimmed) > 0 THEN trimmed ELSE fallback

\* mutant: the padding pieces are appended whatever the inclusion flag
BuildConfig_AlwaysPadding(handshakeMethod, encryptionMethod, a) ==
  Join(<< handshakeMethod, encryptionMethod, NormalizeOption(a.ticketValue, a.fallbackTicket) >>
         \o SanitizeSegments(NormalizeOption(a.paddingValue, DEFAULT_VLESS_PADDING))
         \o << a.authParam >>, ".")

\* a = [ticketValue, paddingValue, includePadding, authParam, fallbackTicket]
BuildConfig(handshakeMethod, encryptionMethod, a) ==
  LET segments == << handshakeMethod, encryptionMethod,
                     NormalizeOption(a.ticketValue, a.fallbackTicket) >>
      paddingSegments ==
        IF a.includePadding
          THEN SanitizeSegments(NormalizeOption(a.paddingValue, DEFAULT_VLESS_PADDING))
          ELSE <<>>
  IN  Join(segments \o paddingSegments \o << a.authParam >>, ".")


(***************************************************************************)
(* Text encoding layer                                                     *)
(***************************************************************************)
BASE64_STD == <<"A","B","C","D","E","F","G","H","I","J","K","L","M","N","O","P","Q","R","S","T","U","V","W","X","Y","Z","a","b","c","d","e","f","g","h","i","j","k","l","m","n","o","p","q","r","s","t","u","v","w","x","y","z","0","1","2","3","4","5","6","7","8","9","+","/">>
BASE64_URL == <<"A","B","C","D","E","F","G","H","I","J","K","L","M","N","O","P","Q","R","S","T","U","V","W","X","Y","Z","a","b","c","d","e","f","g","h","i","j","k","l","m","n","o","p","q","r","s","t","u","v","w","x","y","z","0","1","2","3","4","5","6","7","8","9","-","_">>
HEX_DIGITS == <<"0","1","2","3","4","5","6","7","8","9","a","b","c","d","e","f">>

\* base64 with '=' padding over the given alphabet, three bytes to four characters
RECURSIVE Base64(_, _)
Base64(bytes, alphabet) ==
  IF bytes = <<>> THEN <<>>
  ELSE IF Len(bytes) = 1 THEN
    << alphabet[(bytes[1] \div 4) + 1], alphabet[((bytes[1] % 4) * 16) + 1], "=", "=" >>
  ELSE IF Len(bytes) = 2 THEN
    << alphabet[(bytes[1] \div 4) + 1],
       alphabet[((bytes[1] % 4) * 16 + (bytes[2] \div 16)) + 1],
       alphabet[((bytes[2] % 16) * 4) + 1], "=" >>
  ELSE
    << alphabet[(bytes[1] \div 4) + 1],
       alphabet[((bytes[1] % 4) * 16 + (bytes[2] \div 16)) + 1],
       alphabet[((bytes[2] % 16) * 4 + (bytes[3] \div 64)) + 1],
       alphabet[(bytes[3] % 64) + 1] >>
      \o Base64(SubSeq(bytes, 4, Len(bytes)), alphabet)

\* encodeURLSafe of @stablelib/base64 (padded)
EncodeURLSafe(bytes) == Base64(bytes, BASE64_URL)

\* btoa(String.fromCharCode(...bytes))
Btoa(bytes) == Base64(bytes, BASE64_STD)

NotPadChar(c) == c # "="
NotNewline(c) == c # "\n"

\* .replace(/=/g, '')
StripPadding(s) == SelectSeq(s, NotPadChar)

\* .replace(/\n/g, '')
StripNewlines(s) == SelectSeq(s, NotNewline)

\* mutant: no padStart
HexByte_NoPad(byte) ==
  IF byte < 16 THEN << HEX_DIGITS[byte + 1] >>
  ELSE << HEX_DIGITS[(byte \div 16) + 1], HEX_DIGITS[(byte % 16) + 1] >>

\* byte.toString(16).padStart(2, '0')
HexByte(byte) ==
  LET digits == IF byte < 16 THEN << HEX_DIGITS[byte + 1] >>
                ELSE << HEX_DIGITS[(byte \div 16) + 1], HEX_DIGITS[(byte % 16) + 1] >>
  IN  IF Len(digits) < 2 THEN << "0" >> \o digits ELSE digits

RECURSIVE HexEncode(_)
HexEncode(bytes) ==
  IF bytes = <<>> THEN <<>> ELSE HexByte(Head(bytes)) \o HexEncode(Tail(bytes))

(***************************************************************************)
(* Random byte source and key material generators                          *)
(***************************************************************************)
\* crypto.getRandomValues: the r-th of the MaxSeed buffers the source can return
RandomBytes(n, r) == [i \in 1..n |-> ((r * 89) + (i * 37) + ((i * i * r) % 23)) % 256]

\* scalarMultBase of @stablelib/x25519: deterministic in the secret key
X25519ScalarMultBase(secretKey) ==
  [i \in 1..Len(secretKey) |-> ((secretKey[i] * 5) + (3 * i)) % 256]

\* generateKeyPair() of @stablelib/x25519
GenerateKeyPair(r) ==
  LET secretKey == RandomBytes(X25519_KEY_BYTES, r)
  IN  [secretKey |-> secretKey, publicKey |-> X25519ScalarMultBase(secretKey)]

\* MlKem768.deriveKeyPair(seed): << public key, secret key >>, deterministic in the seed
MlKem768DeriveKeyPair(seed) ==
  << [i \in 1..Len(seed) |-> ((seed[i] * 7) + i) % 256],
     [i \in 1..Len(seed) |-> ((seed[i] * 11) + (5 * i)) % 256] >>

\* generateMldsa65(): a fresh seed and the verification key derived from it
GenerateMldsa65(r) ==
  LET seed == RandomBytes(MLDSA65_SEED_BYTES, r)
      verify == [i \in 1..Len(seed) |-> ((seed[i] * 13) + (2 * i) + 1) % 256]
  IN  [seed |-> StripPadding(EncodeURLSafe(seed)), verify |-> StripPadding(EncodeURLSafe(verify))]

\* formattedKeyPair of generatePrivateAndPublicKey
FormatKeyPair(keyPair) ==
  [ privateKey |-> StripNewlines(StripPadding(EncodeURLSafe(keyPair.secretKey))),
    publicKey  |-> StripNewlines(StripPadding(EncodeURLSafe(keyPair.publicKey))) ]

\* shortId of generateShortId
FormatShortId(randomBytes) == HexEncode(randomBytes)

\* SHADOWSOCKS_ENCRYPTION_METHODS.find(m => m.value === value): the index, 0 when none
FindShadowsocksMethod(value) ==
  IF \E i \in 1..Len(SHADOWSOCKS_ENCRYPTION_METHODS) : SHADOWSOCKS_ENCRYPTION_METHODS[i].value = value
    THEN CHOOSE i \in 1..Len(SHADOWSOCKS_ENCRYPTION_METHODS) :
           /\ SHADOWSOCKS_ENCRYPTION_METHODS[i].value = value
           /\ \A j \in 1..(i - 1) : SHADOWSOCKS_ENCRYPTION_METHODS[j].value # value
    ELSE 0

\* mutant: the password is encoded like the other credentials, URL-safe and unpadded
FormatShadowsocksPassword_UrlSafe(method, r) ==
  [ password |-> StripPadding(EncodeURLSafe(RandomBytes(method.length, r))),
    encryptionMethod |-> method.label ]

\* the credential of generateShadowsocksPassword for a found method
FormatShadowsocksPassword(method, r) ==
  [ password |-> Btoa(RandomBytes(method.length, r)), encryptionMethod |-> method.label ]

\* mutant: the mlkem768 client token is taken from the X25519 pair
VlessKeyMaterial_CrossPaired(r) ==
  LET x25519KeyPair == GenerateKeyPair(r)
      mlkem768Seed == RandomBytes(MLKEM768_SEED_BYTES, r + MaxSeed)
  IN  [ x25519ServerKey   |-> StripPadding(EncodeURLSafe(x25519KeyPair.secretKey)),
        x25519ClientKey   |-> StripPadding(EncodeURLSafe(x25519KeyPair.publicKey)),
        mlkem768ServerKey |-> StripPadding(EncodeURLSafe(mlkem768Seed)),
        mlkem768ClientKey |-> StripPadding(EncodeURLSafe(x25519KeyPair.publicKey)) ]

\* the four tokens of generateVLESSEncryption; r is the outcome of its random draws
\* (the X25519 secret and the 64-byte seed are separate draws)
VlessKeyMaterial(r) ==
  LET x25519KeyPair == GenerateKeyPair(r)
      mlkem768Seed == RandomBytes(MLKEM768_SEED_BYTES, r + MaxSeed)
      mlkem768Client == MlKem768DeriveKeyPair(mlkem768Seed)[1]
  IN  [ x25519ServerKey   |-> StripPadding(EncodeURLSafe(x25519KeyPair.secretKey)),
        x25519ClientKey   |-> StripPadding(EncodeURLSafe(x25519KeyPair.publicKey)),
        mlkem768ServerKey |-> StripPadding(EncodeURLSafe(mlkem768Seed)),
        mlkem768ClientKey |-> StripPadding(EncodeURLSafe(mlkem768Client)) ]

\* mutant: the mlkem768 client string follows the server padding checkbox
VlessResultData_MlkemServerFlag(options, keys) ==
  LET handshakeMethod == NormalizeOption(options.handshakeMethod, DEFAULT_VLESS_HANDSHAKE)
      encryptionMethod == NormalizeOption(options.encryptionMethod, DEFAULT_VLESS_ENCRYPTION)
      x25519Decryption ==
        BuildConfig(handshakeMethod, encryptionMethod,
          [ ticketValue |-> options.serverTicket, paddingValue |-> options.serverPadding,
            includePadding |-> options.includeServerPadding, authParam |-> keys.x25519ServerKey,
            fallbackTicket |-> DEFAULT_VLESS_SERVER_TICKET ])
      x25519Encryption ==
        BuildConfig(handshakeMethod, encryptionMethod,
          [ ticketValue |-> options.clientTicket, paddingValue |-> options.clientPadding,
            includePadding |-> options.includeClientPadding, authParam |-> keys.x25519ClientKey,
            fallbackTicket |-> DEFAULT_VLESS_RESUME ])
      mlkem768Decryption ==
        BuildConfig(handshakeMethod, encryptionMethod,
          [ ticketValue |-> options.serverTicket, paddingValue |-> options.serverPadding,
            includePadding |-> options.includeServerPadding, authParam |-> keys.mlkem768ServerKey,
            fallbackTicket |-> DEFAULT_VLESS_SERVER_TICKET ])
      mlkem768Encryption ==
        BuildConfig(handshakeMethod, encryptionMethod,
          [ ticketValue |-> options.clientTicket, paddingValue |-> options.clientPadding,
            includePadding |-> options.includeServerPadding, authParam |-> keys.mlkem768ClientKey,
            fallbackTicket |-> DEFAULT_VLESS_RESUME ])
  IN  [ x25519   |-> [ decryption |-> x25519Decryption, encryption |-> x25519Encryption ],
        mlkem768 |-> [ decryption |-> mlkem768Decryption, encryption |-> mlkem768Encryption ],
        options  |-> options ]

\* mutant: the mlkem768 server string is built with the client ticket
VlessResultData_MlkemClientTicket(options, keys) ==
  LET handshakeMethod == NormalizeOption(options.handshakeMethod, DEFAULT_VLESS_HANDSHAKE)
      encryptionMethod == NormalizeOption(options.encryptionMethod, DEFAULT_VLESS_ENCRYPTION)
      x25519Decryption ==
        BuildConfig(handshakeMethod, encryptionMethod,
          [ ticketValue |-> options.serverTicket, paddingValue |-> options.serverPadding,
            includePadding |-> options.includeServerPadding, authParam |-> keys.x25519ServerKey,
            fallbackTicket |-> DEFAULT_VLESS_SERVER_TICKET ])
      x25519Encryption ==
        BuildConfig(handshakeMethod, encryptionMethod,
          [ ticketValue |-> options.clientTicket, paddingValue |-> options.clientPadding,
            includePadding |-> options.includeClientPadding, authParam |-> keys.x25519ClientKey,
            fallbackTicket |-> DEFAULT_VLESS_RESUME ])
      mlkem768Decryption ==
        BuildConfig(handshakeMethod, encryptionMethod,
          [ ticketValue |-> options.clientTicket, paddingValue |-> options.serverPadding,
            includePadding |-> options.includeServerPadding, authParam |-> keys.mlkem768ServerKey,
            fallbackTicket |-> DEFAULT_VLESS_SERVER_TICKET ])
      mlkem768Encryption ==
        BuildConfig(handshakeMethod, encryptionMethod,
          [ ticketValue |-> options.clientTicket, paddingValue |-> options.clientPadding,
            includePadding |-> options.includeClientPadding, authParam |-> keys.mlkem768ClientKey,
            fallbackTicket |-> DEFAULT_VLESS_RESUME ])
  IN  [ x25519   |-> [ decryption |-> x25519Decryption, encryption |-> x25519Encryption ],
        mlkem768 |-> [ decryption |-> mlkem768Decryption, encryption |-> mlkem768Encryption ],
        options  |-> options ]

\* mutant: the server strings take their padding from the client padding string
VlessResultData_ServerUsesClientPadding(options, keys) ==
  LET handshakeMethod == NormalizeOption(options.handshakeMethod, DEFAULT_VLESS_HANDSHAKE)
      encryptionMethod == NormalizeOption(options.encryptionMethod, DEFAULT_VLESS_ENCRYPTION)
      server(authParam) ==
        BuildConfig(handshakeMethod, encryptionMethod,
          [ ticketValue |-> options.serverTicket, paddingValue |-> options.clientPadding,
            includePadding |-> options.includeServerPadding, authParam |-> authParam,
            fallbackTicket |-> DEFAULT_VLESS_SERVER_TICKET ])
      client(authParam) ==
        BuildConfig(handshakeMethod, encryptionMethod,
          [ ticketValue |-> options.clientTicket, paddingValue |-> options.clientPadding,
            includePadding |-> options.includeClientPadding, authParam |-> authParam,
            fallbackTicket |-> DEFAULT_VLESS_RESUME ])
  IN  [ x25519   |-> [ decryption |-> server(keys.x25519ServerKey),
                       encryption |-> client(keys.x25519ClientKey) ],
        mlkem768 |-> [ decryption |-> server(keys.mlkem768ServerKey),
                       encryption |-> client(keys.mlkem768ClientKey) ],
        options  |-> options ]

\* resultData of generateVLESSEncryption
VlessResultData(options, keys) ==
  LET handshakeMethod == NormalizeOption(options.handshakeMethod, DEFAULT_VLESS_HANDSHAKE)
      encryptionMethod == NormalizeOption(options.encryptionMethod, DEFAULT_VLESS_ENCRYPTION)
      x25519Decryption ==
        BuildConfig(handshakeMethod, encryptionMethod,
          [ ticketValue |-> options.serverTicket, paddingValue |-> options.serverPadding,
            includePadding |-> options.includeServerPadding, authParam |-> keys.x25519ServerKey,
            fallbackTicket |-> DEFAULT_VLESS_SERVER_TICKET ])
      x25519Encryption ==
        BuildConfig(handshakeMethod, encryptionMethod,
          [ ticketValue |-> options.clientTicket, paddingValue |-> options.clientPadding,
            includePadding |-> options.includeClientPadding, authParam |-> keys.x25519ClientKey,
            fallbackTicket |-> DEFAULT_VLESS_RESUME ])
      mlkem768Decryption ==
        BuildConfig(handshakeMethod, encryptionMethod,
          [ ticketValue |-> options.serverTicket, paddingValue |-> options.serverPadding,
            includePadding |-> options.includeServerPadding, authParam |-> keys.mlkem768ServerKey,
            fallbackTicket |-> DEFAULT_VLESS_SERVER_TICKET ])
      mlkem768Encryption ==
        BuildConfig(handshakeMethod, encryptionMethod,
          [ ticketValue |-> options.clientTicket, paddingValue |-> options.clientPadding,
            includePadding |-> options.includeClientPadding, authParam |-> keys.mlkem768ClientKey,
            fallbackTicket |-> DEFAULT_VLESS_RESUME ])
  IN  [ x25519   |-> [ decryption |-> x25519Decryption, encryption |-> x25519Encryption ],
        mlkem768 |-> [ decryption |-> mlkem768Decryption, encryption |-> mlkem768Encryption ],
        options  |-> options ]

(***************************************************************************)
(* What each generator produces for each outcome of the random source      *)
(***************************************************************************)
KeyPairDraws == [r \in 1..MaxSeed |-> FormatKeyPair(GenerateKeyPair(r))]
ShortIdDraws == [r \in 1..MaxSeed |-> FormatShortId(RandomBytes(SHORT_ID_BYTES, r))]
ShadowsocksDraws ==
  [i \in 1..Len(SHADOWSOCKS_ENCRYPTION_METHODS) |->
     [r \in 1..MaxSeed |-> FormatShadowsocksPassword(SHADOWSOCKS_ENCRYPTION_METHODS[i], r)]]
Mldsa65Draws == [r \in 1..MaxSeed |-> GenerateMldsa65(r)]
VlessKeyDraws == [r \in 1..MaxSeed |-> VlessKeyMaterial(r)]

(***************************************************************************)
(* JSON.parse, for documents without string escapes, signs, fractions and  *)
(* exponents.  A JSON value is a record tagged with its type.              *)
(***************************************************************************)
JNull == [t |-> "null"]
JUndefined == [t |-> "undefined"]
\* a boolean, a number, a string (its characters), an array (its elements) or an object
\* (its members, each a key k and a value v, in the order of the text)
JValue(type, value) == [t |-> type, v |-> value]

JSON_WHITESPACE == {" ", "\n", "\t", "\r"}
JSON_DIGITS == <<"0","1","2","3","4","5","6","7","8","9">>

\* a parse that stopped with a SyntaxError, and one that read val and stands at pos
Failed == [ok |-> FALSE, val |-> JNull, pos |-> 0]
Parsed(val, pos) == [ok |-> TRUE, val |-> val, pos |-> pos]

RECURSIVE SkipWhitespace(_, _)
SkipWhitespace(txt, i) ==
  IF i <= Len(txt) /\ txt[i] \in JSON_WHITESPACE THEN SkipWhitespace(txt, i + 1) ELSE i

\* txt has the characters of word from position i
Matches(txt, i, word) ==
  /\ i + Len(word) - 1 <= Len(txt)
  /\ \A k \in 1..Len(word) : txt[i + k - 1] = word[k]

ParseLiteral(txt, i) ==
  IF Matches(txt, i, <<"t","r","u","e">>) THEN Parsed(JValue("bool", TRUE), i + 4)
  ELSE IF Matches(txt, i, <<"f","a","l","s","e">>) THEN Parsed(JValue("bool", FALSE), i + 5)
  ELSE IF Matches(txt, i, <<"n","u","l","l">>) THEN Parsed(JNull, i + 4)
  ELSE Failed

IsDigit(c) == \E d \in 1..10 : JSON_DIGITS[d] = c
DigitValue(c) == (CHOOSE d \in 1..10 : JSON_DIGITS[d] = c) - 1

RECURSIVE DigitsValue(_, _, _)
DigitsValue(txt, from, to) ==
  IF to < from THEN 0
  ELSE (10 * DigitsValue(txt, from, to - 1)) + DigitValue(txt[to])

\* an integer starting at the digit at i; no leading zero before another digit
ParseNumber(txt, i) ==
  LET stops == { j \in i..(Len(txt) + 1) : j > Len(txt) \/ ~IsDigit(txt[j]) }
      end == CHOOSE j \in stops : \A k \in stops : j <= k
  IN  IF txt[i] = "0" /\ end > i + 1 THEN Failed
      ELSE Parsed(JValue("num", DigitsValue(txt, i, end - 1)), end)

\* a string starting at the quote at i
ParseString(txt, i) ==
  LET quotes == { j \in (i + 1)..Len(txt) : txt[j] = "\"" }
  IN  IF quotes = {} THEN Failed
      ELSE LET closing == CHOOSE j \in quotes : \A k \in quotes : j <= k
           IN  IF \E k \in (i + 1)..(closing - 1) : txt[k] \in {"\\", "\n", "\t", "\r"}
                 THEN Failed
                 ELSE Parsed(JValue("str", SubSeq(txt, i + 1, closing - 1)), closing + 1)

RECURSIVE ParseValue(_, _), ParseElements(_, _, _), ParseMembers(_, _, _)
ParseValue(txt, from) ==
  LET i == SkipWhitespace(txt, from)
  IN  IF i > Len(txt) THEN Failed
      ELSE CASE txt[i] = "{" ->
                  LET j == SkipWhitespace(txt, i + 1)
                  IN  IF j <= Len(txt) /\ txt[j] = "}" THEN Parsed(JValue("obj", <<>>), j + 1)
                      ELSE ParseMembers(txt, j, <<>>)
             [] txt[i] = "[" ->
                  LET j == SkipWhitespace(txt, i + 1)
                  IN  IF j <= Len(txt) /\ txt[j] = "]" THEN Parsed(JValue("arr", <<>>), j + 1)
                      ELSE ParseElements(txt, j, <<>>)
             [] txt[i] = "\"" -> ParseString(txt, i)
             [] IsDigit(txt[i]) -> ParseNumber(txt, i)
             [] OTHER -> ParseLiteral(txt, i)

\* the elements of an array from position i on: a value, then ',' or ']'
ParseElements(txt, i, acc) ==
  LET element == ParseValue(txt, i)
      j == SkipWhitespace(txt, element.pos)
  IN  IF ~element.ok \/ j > Len(txt) THEN Failed
      ELSE IF txt[j] = "," THEN ParseElements(txt, j + 1, Append(acc, element.val))
      ELSE IF txt[j] = "]" THEN Parsed(JValue("arr", Append(acc, element.val)), j + 1)
      ELSE Failed

\* the members of an object from position from on: a key, ':', a value, then ',' or '}'
ParseMembers(txt, from, acc) ==
  LET i == SkipWhitespace(txt, from)
  IN  IF i > Len(txt) \/ txt[i] # "\"" THEN Failed
      ELSE LET key == ParseString(txt, i)
               colon == SkipWhitespace(txt, key.pos)
           IN  IF ~key.ok \/ colon > Len(txt) \/ txt[colon] # ":" THEN Failed
               ELSE LET value == ParseValue(txt, colon + 1)
                        j == SkipWhitespace(txt, value.pos)
                        member == [k |-> key.val.v, v |-> value.val]
                    IN  IF ~value.ok \/ j > Len(txt) THEN Failed
                        ELSE IF txt[j] = "," THEN ParseMembers(txt, j + 1, Append(acc, member))
                        ELSE IF txt[j] = "}" THEN Parsed(JValue("obj", Append(acc, member)), j + 1)
                        ELSE Failed

\* JSON.parse(text): ok is false when it throws
JsonParse(txt) ==
  LET r == ParseValue(txt, 1)
  IN  IF r.ok /\ SkipWhitespace(txt, r.pos) = Len(txt) + 1
        THEN [ok |-> TRUE, val |-> r.val]
        ELSE [ok |-> FALSE, val |-> JNull]

\* value.key for a value that is not null: the last member of that name of an object,
\* undefined for anything else
GetProperty(value, key) ==
  IF value.t # "obj" THEN JUndefined
  ELSE LET at == { i \in 1..Len(value.v) : value.v[i].k = key }
       IN  IF at = {} THEN JUndefined
           ELSE value.v[CHOOSE i \in at : \A j \in at : j <= i].v

(***************************************************************************)
(* The documents of the model: texts of the form value 'config'            *)
(***************************************************************************)
\* JSON.stringify({}, null, 2) of initialDefaultValues
INITIAL_CONFIG == << "{", "}" >>

\* defaultConfig
DEFAULT_CONFIG ==
  <<"{","\n"," "," ","\"","l","o","g","\"",":"," ","{","\n"," "," "," "," ","\"","l","o","g",
    "l","e","v","e","l","\"",":"," ","\"","i","n","f","o","\"","\n"," "," ","}",",","\n"," ",
    " ","\"","i","n","b","o","u","n","d","s","\"",":"," ","[","\n"," "," "," "," ","{","\n"," ",
    " "," "," "," "," ","\"","t","a","g","\"",":"," ","\"","S","h","a","d","o","w","s","o","c",
    "k","s"," ","T","C","P","\"",",","\n"," "," "," "," "," "," ","\"","l","i","s","t","e","n",
    "\"",":"," ","\"","0",".","0",".","0",".","0","\"",",","\n"," "," "," "," "," "," ","\"",
    "p","o","r","t","\"",":"," ","1","0","8","0",",","\n"," "," "," "," "," "," ","\"","p","r",
    "o","t","o","c","o","l","\"",":"," ","\"","s","h","a","d","o","w","s","o","c","k","s","\"",
    ",","\n"," "," "," "," "," "," ","\"","s","e","t","t","i","n","g","s","\"",":"," ","{","\n",
    " "," "," "," "," "," "," "," ","\"","c","l","i","e","n","t","s","\"",":"," ","[","]",",",
    "\n"," "," "," "," "," "," "," "," ","\"","n","e","t","w","o","r","k","\"",":"," ","\"","t",
    "c","p",",","u","d","p","\"","\n"," "," "," "," "," "," ","}","\n"," "," "," "," ","}","\n",
    " "," ","]",",","\n"," "," ","\"","o","u","t","b","o","u","n","d","s","\"",":"," ","[","\n",
    " "," "," "," ","{","\n"," "," "," "," "," "," ","\"","p","r","o","t","o","c","o","l","\"",
    ":"," ","\"","f","r","e","e","d","o","m","\"",",","\n"," "," "," "," "," "," ","\"","t","a",
    "g","\"",":"," ","\"","D","I","R","E","C","T","\"","\n"," "," "," "," ","}",",","\n"," ",
    " "," "," ","{","\n"," "," "," "," "," "," ","\"","p","r","o","t","o","c","o","l","\"",":",
    " ","\"","b","l","a","c","k","h","o","l","e","\"",",","\n"," "," "," "," "," "," ","\"","t",
    "a","g","\"",":"," ","\"","B","L","O","C","K","\"","\n"," "," "," "," ","}","\n"," "," ",
    "]",",","\n"," "," ","\"","r","o","u","t","i","n","g","\"",":"," ","{","\n"," "," "," "," ",
    "\"","r","u","l","e","s","\"",":"," ","[","\n"," "," "," "," "," "," ","{","\n"," "," "," ",
    " "," "," "," "," ","\"","i","p","\"",":"," ","[","\n"," "," "," "," "," "," "," "," "," ",
    " ","\"","g","e","o","i","p",":","p","r","i","v","a","t","e","\"","\n"," "," "," "," "," ",
    " "," "," ","]",",","\n"," "," "," "," "," "," "," "," ","\"","o","u","t","b","o","u","n",
    "d","T","a","g","\"",":"," ","\"","B","L","O","C","K","\"",",","\n"," "," "," "," "," "," ",
    " "," ","\"","t","y","p","e","\"",":"," ","\"","f","i","e","l","d","\"","\n"," "," "," ",
    " "," "," ","}","\n"," "," "," "," ","]","\n"," "," ","}","\n","}">>

\* texts the editor can be made to hold
TypedDocuments ==
  <<
     <<"{","\"","i","n","b","o","u","n","d","s","\"",":","[","{","\"","t","a","g","\"",":","\"",
    "A","\"","}",",","{","\"","t","a","g","\"",":","\"","\"","}",",","{","\"","n","o","t","a",
    "g","\"",":","1","}","]","}">>,
     <<"{","\"","i","n","b","o","u","n","d","s","\"",":","[","{","\"","t","a","g","\"",":","\"",
    "B","\"","}",",","{","\"","t","a","g","\"",":","\""," ","\"","}",",","{","\"","t","a","g",
    "\"",":","\"","A","\"","}",",","{","\"","t","a","g","\"",":","7","}","]","}">>,
     <<"{","\"","i","n","b","o","u","n","d","s","\"",":","[","{","\"","t","a","g","\"",":","\"",
    "A","\"","}",",","n","u","l","l","]","}">>,
     <<"{","\"","i","n","b","o","u","n","d","s","\"",":","[","{","\"","t","a","g","\"",":","\"",
    "A","\"","}">>,
     <<"{","\"","o","u","t","b","o","u","n","d","s","\"",":","[","{","\"","t","a","g","\"",":",
    "\"","A","\"","}","]","}">>,
     <<"{","\"","i","n","b","o","u","n","d","s","\"",":","{","\"","t","a","g","\"",":","\"","A",
    "\"","}","}">>,
     <<"n","u","l","l">>,
     <<>>
  >>

\* JSON.stringify(core.config, null, 2) of a core of the backend
CORE_CONFIG ==
  <<"{","\n"," "," ","\"","i","n","b","o","u","n","d","s","\"",":"," ","[","\n"," "," "," "," ",
    "{","\n"," "," "," "," "," "," ","\"","t","a","g","\"",":"," ","\"","i","n","-","1","\"",
    "\n"," "," "," "," ","}",",","\n"," "," "," "," ","{","\n"," "," "," "," "," "," ","\"","t",
    "a","g","\"",":"," ","\"","i","n","-","2","\"","\n"," "," "," "," ","}","\n"," "," ","]",
    "\n","}">>

(***************************************************************************)
(* The body of debouncedConfigChange: the tags handed to setInboundTags    *)
(***************************************************************************)
INBOUNDS_KEY == << "i", "n", "b", "o", "u", "n", "d", "s" >>
TAG_KEY == << "t", "a", "g" >>

\* mutant: the filter does not trim the tag
HasNamedTag_NoTrim(inbound) ==
  LET tag == GetProperty(inbound, TAG_KEY)
  IN  tag.t = "str" /\ tag.v # <<>>

\* typeof inbound.tag === 'string' && inbound.tag.trim() !== ''
HasNamedTag(inbound) ==
  LET tag == GetProperty(inbound, TAG_KEY)
  IN  tag.t = "str" /\ Trim(tag.v) # <<>>

TagsOfInbounds(inbounds) ==
  LET kept == SelectSeq(inbounds, HasNamedTag)
  IN  [i \in 1..Len(kept) |-> GetProperty(kept[i], TAG_KEY).v]

\* the try block throws: a SyntaxError of JSON.parse, or a TypeError on reading a
\* property of null (parsedConfig.inbounds, inbound.tag)
TryThrows(value) ==
  LET parsedConfig == JsonParse(value)
  IN  \/ ~parsedConfig.ok
      \/ parsedConfig.val = JNull
      \/ LET inbounds == GetProperty(parsedConfig.val, INBOUNDS_KEY)
         IN  inbounds.t = "arr" /\ \E i \in 1..Len(inbounds.v) : inbounds.v[i] = JNull

\* the argument of setInboundTags; the catch block sets no tags
InboundTagsOf(value) ==
  IF TryThrows(value) THEN <<>>
  ELSE LET inbounds == GetProperty(JsonParse(value).val, INBOUNDS_KEY)
       IN  IF inbounds.t = "arr" THEN TagsOfInbounds(inbounds.v) ELSE <<>>

(***************************************************************************)
(* State of CoreConfigModal                                                *)
(***************************************************************************)
VARIABLES
  isDialogOpen,                      \* prop of the modal
  isGeneratingKeyPair, isGeneratingShortId, isGeneratingVLESSEncryption,
  isGeneratingShadowsocksPassword, isGeneratingMldsa65,
  selectedEncryptionMethod, selectedVlessVariant, vlessOptions,
  isVlessAdvancedModalOpen,
  isResultsDialogOpen, resultType, resultData,
  generatedKeyPair, generatedShortId, generatedShadowsocksPassword,
  generatedMldsa65, generatedVLESS,
  mldsa65Pending,                    \* handleGenerateMldsa65 calls suspended at their await
  vlessPending,                      \* generateVLESSEncryption calls suspended at their await
  generationCalls,                   \* history: calls of each generation function
  edits,                             \* history: edits of the selectors and builder options
  lastOp,                            \* history: the handler that ran last, what it ended in,
                                     \* its toast.error calls, and whether it threw
  bcArgs, bcOut,                     \* one application of buildConfig
  vrOptions, vrDraw,                 \* the options and random outcome of one encoding of a
  vrOut, vrPrev,                     \* VLESS result, the result, and the result before the
                                     \* last change of the options
  formValues,                        \* the values of the form of cores.tsx
  editingCore,                       \* state of cores.tsx: the core being edited, or null
  inboundTags,                       \* the tags offered by the two inbound selectors
  debounced,                         \* the pending call of debouncedConfigChange, or null
  mutation                           \* the request of onSubmit awaiting its answer, or null

flags == << isGeneratingKeyPair, isGeneratingShortId, isGeneratingVLESSEncryption,
            isGeneratingShadowsocksPassword, isGeneratingMldsa65 >>
cache == << generatedKeyPair, generatedShortId, generatedShadowsocksPassword,
            generatedMldsa65, generatedVLESS >>
results == << isResultsDialogOpen, resultType, resultData >>
selectors == << selectedEncryptionMethod, selectedVlessVariant, vlessOptions, edits >>
pending == << mldsa65Pending, vlessPending >>
encoder == << bcArgs, bcOut, vrOptions, vrDraw, vrOut, vrPrev >>
form == << formValues, editingCore, inboundTags, debounced, mutation >>
vars == << isDialogOpen, flags, cache, results, selectors, isVlessAdvancedModalOpen,
           pending, generationCalls, lastOp, encoder, form >>

\* the values of resultType
Kinds == {"keyPair", "shortId", "shadowsocksPassword", "mldsa65", "vlessEncryption"}

\* null of an object-valued state; '' and null of a string-valued state are both <<>>
Null == [null |-> TRUE]
NoType == "null"

\* a handler that ended without an error
Op(op, kind, outcome) ==
  [op |-> op, kind |-> kind, outcome |-> outcome, toasts |-> 0, thrown |-> FALSE]

\* mutant: the catch block rethrows instead of notifying
Caught_Rethrows(op, kind) ==
  [op |-> op, kind |-> kind, outcome |-> "failure", toasts |-> 0, thrown |-> TRUE]

\* the catch block of a generation function: one toast.error, nothing rethrown
Caught(op, kind) ==
  [op |-> op, kind |-> kind, outcome |-> "failure", toasts |-> 1, thrown |-> FALSE]

TotalCalls ==
  generationCalls["keyPair"] + generationCalls["shortId"] + generationCalls["shadowsocksPassword"]
    + generationCalls["mldsa65"] + generationCalls["vlessEncryption"]

InputsLeft == TotalCalls + edits < MaxInputs
FormInputsLeft == InputsLeft /\ edits < MaxFormInputs

Called(kind) == generationCalls' = [generationCalls EXCEPT ![kind] = @ + 1]

\* the cached value of a kind, and whether the view function finds one
Generated(kind) ==
  CASE kind = "keyPair" -> generatedKeyPair
    [] kind = "shortId" -> generatedShortId
    [] kind = "shadowsocksPassword" -> generatedShadowsocksPassword
    [] kind = "mldsa65" -> generatedMldsa65
    [] kind = "vlessEncryption" -> generatedVLESS

IsCached(kind) == IF kind = "shortId" THEN generatedShortId # <<>> ELSE Generated(kind) # Null

IsGenerating(kind) ==
  CASE kind = "keyPair" -> isGeneratingKeyPair
    [] kind = "shortId" -> isGeneratingShortId
    [] kind = "shadowsocksPassword" -> isGeneratingShadowsocksPassword
    [] kind = "mldsa65" -> isGeneratingMldsa65
    [] kind = "vlessEncryption" -> isGeneratingVLESSEncryption

\* generation calls of a kind that have started and not ended
InFlight(kind) ==
  CASE kind = "mldsa65" -> mldsa65Pending
    [] kind = "vlessEncryption" -> Len(vlessPending)
    [] OTHER -> 0

\* LoaderButton: not clickable while isLoading
LoaderButtonEnabled(isLoading) == ~isLoading

(***************************************************************************)
(* The form (useForm of cores.tsx) and what the modal derives from it      *)
(***************************************************************************)
\* a form value that was never set, and one that was
Undefined == [undefined |-> TRUE]
Defined(value) == [value |-> value]

initialDefaultValues ==
  [ name |-> <<>>,
    config |-> INITIAL_CONFIG,
    excluded_inbound_ids |-> Defined(<<>>),
    fallback_id |-> Undefined,
    restart_nodes |-> Undefined,
    core_type |-> "xray" ]

\* the values the open effect resets the form to for a new core
NewCoreValues ==
  [ name |-> <<>>,
    config |-> DEFAULT_CONFIG,
    excluded_inbound_ids |-> Defined(<<>>),
    fallback_id |-> Defined(<<>>),
    restart_nodes |-> Defined(TRUE),
    core_type |-> "xray" ]

\* the cores of the backend that handleEdit can be called with
BackendCores ==
  { [ id |-> 1,
      name |-> << "c" >>,
      config |-> CORE_CONFIG,
      exclude_inbound_tags |-> << << "i", "n", "-", "2" >> >>,
      core_type |-> "xray" ] }

\* the values handleEdit resets the form to
EditedCoreValues(core) ==
  [ name |-> core.name,
    config |-> core.config,
    excluded_inbound_ids |-> Defined(core.exclude_inbound_tags),
    fallback_id |-> Undefined,
    restart_nodes |-> Undefined,
    core_type |-> core.core_type ]

\* the texts the form value 'config' takes in the model, and JSON.parse and the body of
\* debouncedConfigChange on each of them, computed once
Documents ==
  { INITIAL_CONFIG, DEFAULT_CONFIG } \cup { core.config : core \in BackendCores }
    \cup { TypedDocuments[d] : d \in 1..Len(TypedDocuments) }
ParsedDocument == [text \in Documents |-> JsonParse(text)]
ExtractedTags ==
  [text \in Documents |-> [threw |-> TryThrows(text), tags |-> InboundTagsOf(text)]]

\* the config watch effect after the form values became `values`: a changed, non-empty
\* text (re)starts the debounce with that text
Watched(values) ==
  IF values.config # formValues.config /\ values.config # <<>>
    THEN [value |-> values.config]
    ELSE debounced

\* form values are replaced and the watch effect runs
SetFormValues(values) ==
  /\ formValues' = values
  /\ debounced' = Watched(values)

\* the modal is mounted closed: the watch effect has run once on the initial text
InitForm ==
  /\ formValues = initialDefaultValues
  /\ editingCore = Null
  /\ inboundTags = <<>>
  /\ debounced = [value |-> INITIAL_CONFIG]
  /\ mutation = Null

\* the state of a freshly mounted CoreConfigModal
InitModal ==
  /\ InitForm
  /\ isDialogOpen = FALSE
  /\ isGeneratingKeyPair = FALSE
  /\ isGeneratingShortId = FALSE
  /\ isGeneratingVLESSEncryption = FALSE
  /\ isGeneratingShadowsocksPassword = FALSE
  /\ isGeneratingMldsa65 = FALSE
  /\ selectedEncryptionMethod = SHADOWSOCKS_ENCRYPTION_METHODS[1].value
  /\ selectedVlessVariant = "x25519"
  /\ vlessOptions = createDefaultVlessOptions
  /\ isVlessAdvancedModalOpen = FALSE
  /\ isResultsDialogOpen = FALSE
  /\ resultType = NoType
  /\ resultData = Null
  /\ generatedKeyPair = Null
  /\ generatedShortId = <<>>
  /\ generatedShadowsocksPassword = Null
  /\ generatedMldsa65 = Null
  /\ generatedVLESS = Null
  /\ mldsa65Pending = 0
  /\ vlessPending = <<>>
  /\ generationCalls = [k \in Kinds |-> 0]
  /\ edits = 0
  /\ lastOp = Op("init", "none", "none")

\* no VLESS result is being encoded outside the modal
NoVlessEncoding ==
  /\ vrOptions = Null
  /\ vrDraw = 0
  /\ vrOut = Null
  /\ vrPrev = Null

Init ==
  /\ InitModal
  /\ bcArgs = Null
  /\ bcOut = Null
  /\ NoVlessEncoding

\* mutant: the dialog is retitled and keeps the data it had
ShowResultDialog_TypeOnly(type, data) ==
  /\ resultType' = type
  /\ resultData' = resultData
  /\ isResultsDialogOpen' = TRUE

\* showResultDialog(type, data)
ShowResultDialog(type, data) ==
  /\ resultType' = type
  /\ resultData' = data
  /\ isResultsDialogOpen' = TRUE

(***************************************************************************)
(* Generation functions.  `trigger` names the handler that made the call.  *)
(* The three functions without an await run to their end in one step; the  *)
(* flag they set and clear is false when the step ends.                    *)
(***************************************************************************)
\* mutant: the success path shows the new key pair and never stores it
generatePrivateAndPublicKey_KeepsOld(trigger) ==
  /\ InputsLeft
  /\ Called("keyPair")
  /\ \/ \E r \in 1..MaxSeed :
          /\ ShowResultDialog("keyPair", KeyPairDraws[r])
          /\ lastOp' = Op(trigger, "keyPair", "success")
     \/ /\ UNCHANGED << results >>
        /\ lastOp' = Caught(trigger, "keyPair")
  /\ isGeneratingKeyPair' = FALSE
  /\ UNCHANGED << isDialogOpen, isGeneratingShortId, isGeneratingVLESSEncryption,
                  isGeneratingShadowsocksPassword, isGeneratingMldsa65, selectors,
                  isVlessAdvancedModalOpen, cache, pending, encoder, form >>

\* mutant: a regeneration replaces the public key only
generatePrivateAndPublicKey_KeepsPrivateKey(trigger) ==
  /\ InputsLeft
  /\ Called("keyPair")
  /\ \/ \E r \in 1..MaxSeed :
          LET formattedKeyPair ==
                IF generatedKeyPair = Null THEN KeyPairDraws[r]
                ELSE [ privateKey |-> generatedKeyPair.privateKey,
                       publicKey  |-> KeyPairDraws[r].publicKey ]
          IN  /\ generatedKeyPair' = formattedKeyPair
              /\ ShowResultDialog("keyPair", formattedKeyPair)
              /\ lastOp' = Op(trigger, "keyPair", "success")
     \/ /\ UNCHANGED << generatedKeyPair, results >>
        /\ lastOp' = Caught(trigger, "keyPair")
  /\ isGeneratingKeyPair' = FALSE
  /\ UNCHANGED << isDialogOpen, isGeneratingShortId, isGeneratingVLESSEncryption,
                  isGeneratingShadowsocksPassword, isGeneratingMldsa65, selectors,
                  isVlessAdvancedModalOpen, generatedShortId, generatedShadowsocksPassword,
                  generatedMldsa65, generatedVLESS, pending, encoder, form >>

generatePrivateAndPublicKey(trigger) ==
  /\ InputsLeft
  /\ Called("keyPair")
  /\ \/ \E r \in 1..MaxSeed :
          LET formattedKeyPair == KeyPairDraws[r]
          IN  /\ generatedKeyPair' = formattedKeyPair
              /\ ShowResultDialog("keyPair", formattedKeyPair)
              /\ lastOp' = Op(trigger, "keyPair", "success")
     \/ \* catch: generateKeyPair threw
        /\ UNCHANGED << generatedKeyPair, results >>
        /\ lastOp' = Caught(trigger, "keyPair")
  /\ isGeneratingKeyPair' = FALSE
  /\ UNCHANGED << isDialogOpen, isGeneratingShortId, isGeneratingVLESSEncryption,
                  isGeneratingShadowsocksPassword, isGeneratingMldsa65, selectors,
                  isVlessAdvancedModalOpen, generatedShortId, generatedShadowsocksPassword,
                  generatedMldsa65, generatedVLESS, pending, encoder, form >>

\* mutant: one in-progress flag shared by the kinds, cleared at the end of any generation
generateShortId_ClearsEveryFlag(trigger) ==
  /\ InputsLeft
  /\ Called("shortId")
  /\ \/ \E r \in 1..MaxSeed :
          LET shortId == ShortIdDraws[r]
          IN  /\ generatedShortId' = shortId
              /\ ShowResultDialog("shortId", [shortId |-> shortId])
              /\ lastOp' = Op(trigger, "shortId", "success")
     \/ /\ UNCHANGED << generatedShortId, results >>
        /\ lastOp' = Caught(trigger, "shortId")
  /\ isGeneratingShortId' = FALSE
  /\ isGeneratingKeyPair' = FALSE
  /\ isGeneratingVLESSEncryption' = FALSE
  /\ isGeneratingShadowsocksPassword' = FALSE
  /\ isGeneratingMldsa65' = FALSE
  /\ UNCHANGED << isDialogOpen, selectors,
                  isVlessAdvancedModalOpen, generatedKeyPair, generatedShadowsocksPassword,
                  generatedMldsa65, generatedVLESS, pending, encoder, form >>

generateShortId(trigger) ==
  /\ InputsLeft
  /\ Called("shortId")
  /\ \/ \E r \in 1..MaxSeed :
          LET shortId == ShortIdDraws[r]
          IN  /\ generatedShortId' = shortId
              /\ ShowResultDialog("shortId", [shortId |-> shortId])
              /\ lastOp' = Op(trigger, "shortId", "success")
     \/ \* catch: crypto.getRandomValues threw
        /\ UNCHANGED << generatedShortId, results >>
        /\ lastOp' = Caught(trigger, "shortId")
  /\ isGeneratingShortId' = FALSE
  /\ UNCHANGED << isDialogOpen, isGeneratingKeyPair, isGeneratingVLESSEncryption,
                  isGeneratingShadowsocksPassword, isGeneratingMldsa65, selectors,
                  isVlessAdvancedModalOpen, generatedKeyPair, generatedShadowsocksPassword,
                  generatedMldsa65, generatedVLESS, pending, encoder, form >>

generateShadowsocksPassword(trigger, value) ==
  /\ InputsLeft
  /\ Called("shadowsocksPassword")
  /\ LET found == FindShadowsocksMethod(value)
     IN  IF found = 0
           THEN \* if (!method) return
                /\ UNCHANGED << generatedShadowsocksPassword, results >>
                /\ lastOp' = Op(trigger, "shadowsocksPassword", "returned")
           ELSE \/ \E r \in 1..MaxSeed :
                     LET credential == ShadowsocksDraws[found][r]
                     IN  /\ generatedShadowsocksPassword' = credential
                         /\ ShowResultDialog("shadowsocksPassword", credential)
                         /\ lastOp' = Op(trigger, "shadowsocksPassword", "success")
                \/ \* catch: crypto.getRandomValues threw
                   /\ UNCHANGED << generatedShadowsocksPassword, results >>
                   /\ lastOp' = Caught(trigger, "shadowsocksPassword")
  /\ isGeneratingShadowsocksPassword' = FALSE
  /\ UNCHANGED << isDialogOpen, isGeneratingKeyPair, isGeneratingShortId,
                  isGeneratingVLESSEncryption, isGeneratingMldsa65, selectors,
                  isVlessAdvancedModalOpen, generatedKeyPair, generatedShortId,
                  generatedMldsa65, generatedVLESS, pending, encoder, form >>

\* handleGenerateMldsa65 up to `await generateMldsa65()`
handleGenerateMldsa65(trigger) ==
  /\ InputsLeft
  /\ Called("mldsa65")
  /\ isGeneratingMldsa65' = TRUE
  /\ mldsa65Pending' = mldsa65Pending + 1
  /\ lastOp' = Op(trigger, "mldsa65", "started")
  /\ UNCHANGED << isDialogOpen, isGeneratingKeyPair, isGeneratingShortId,
                  isGeneratingVLESSEncryption, isGeneratingShadowsocksPassword, selectors,
                  isVlessAdvancedModalOpen, results, cache, vlessPending, encoder, form >>

\* handleGenerateMldsa65 from the await on: the promise settles
CompleteMldsa65 ==
  /\ mldsa65Pending > 0
  /\ mldsa65Pending' = mldsa65Pending - 1
  /\ \/ \E r \in 1..MaxSeed :
          LET result == Mldsa65Draws[r]
          IN  /\ generatedMldsa65' = result
              /\ ShowResultDialog("mldsa65", result)
              /\ lastOp' = Op("complete", "mldsa65", "success")
     \/ \* catch: generateMldsa65 rejected
        /\ UNCHANGED << generatedMldsa65, results >>
        /\ lastOp' = Caught("complete", "mldsa65")
  /\ isGeneratingMldsa65' = FALSE
  /\ UNCHANGED << isDialogOpen, isGeneratingKeyPair, isGeneratingShortId,
                  isGeneratingVLESSEncryption, isGeneratingShadowsocksPassword, selectors,
                  isVlessAdvancedModalOpen, generatedKeyPair, generatedShortId,
                  generatedShadowsocksPassword, generatedVLESS, vlessPending,
                  generationCalls, encoder, form >>

\* generateVLESSEncryption up to `await mlkem768.deriveKeyPair(mlkem768Seed)`:
\* the Generate button of the advanced settings modal
GenerateVLESSEncryption ==
  /\ isVlessAdvancedModalOpen
  /\ LoaderButtonEnabled(isGeneratingVLESSEncryption)
  /\ InputsLeft
  /\ Called("vlessEncryption")
  /\ \/ \E r \in 1..MaxSeed :
          /\ vlessPending' = Append(vlessPending, [options |-> vlessOptions, draw |-> r])
          /\ isGeneratingVLESSEncryption' = TRUE
          /\ lastOp' = Op("generate", "vlessEncryption", "started")
     \/ \* catch: generateKeyPair or crypto.getRandomValues threw
        /\ isGeneratingVLESSEncryption' = FALSE
        /\ UNCHANGED << vlessPending >>
        /\ lastOp' = Caught("generate", "vlessEncryption")
  /\ UNCHANGED << isDialogOpen, isGeneratingKeyPair, isGeneratingShortId,
                  isGeneratingShadowsocksPassword, isGeneratingMldsa65, selectors,
                  isVlessAdvancedModalOpen, results, cache, mldsa65Pending, encoder, form >>

\* mutant: the X25519 half is stored before the await, so a rejected derivation
\* leaves a partial result in the cache
CompleteVLESS_PartialOnFailure ==
  /\ vlessPending # <<>>
  /\ LET call == Head(vlessPending)
         data == VlessResultData(call.options, VlessKeyDraws[call.draw])
     IN  \/ /\ generatedVLESS' = data
            /\ ShowResultDialog("vlessEncryption", data)
            /\ lastOp' = Op("complete", "vlessEncryption", "success")
         \/ /\ generatedVLESS' = [x25519 |-> data.x25519, options |-> data.options]
            /\ UNCHANGED << results >>
            /\ lastOp' = Caught("complete", "vlessEncryption")
  /\ vlessPending' = Tail(vlessPending)
  /\ isGeneratingVLESSEncryption' = FALSE
  /\ UNCHANGED << isDialogOpen, isGeneratingKeyPair, isGeneratingShortId,
                  isGeneratingShadowsocksPassword, isGeneratingMldsa65, selectors,
                  isVlessAdvancedModalOpen, generatedKeyPair, generatedShortId,
                  generatedShadowsocksPassword, generatedMldsa65, mldsa65Pending,
                  generationCalls, encoder, form >>

\* mutant: the continuation reads the options as they are when the derivation settles
CompleteVLESS_ReadsCurrentOptions ==
  /\ vlessPending # <<>>
  /\ LET call == Head(vlessPending)
     IN  \/ LET data == VlessResultData(vlessOptions, VlessKeyDraws[call.draw])
            IN  /\ generatedVLESS' = data
                /\ ShowResultDialog("vlessEncryption", data)
                /\ lastOp' = Op("complete", "vlessEncryption", "success")
         \/ /\ UNCHANGED << generatedVLESS, results >>
            /\ lastOp' = Caught("complete", "vlessEncryption")
  /\ vlessPending' = Tail(vlessPending)
  /\ isGeneratingVLESSEncryption' = FALSE
  /\ UNCHANGED << isDialogOpen, isGeneratingKeyPair, isGeneratingShortId,
                  isGeneratingShadowsocksPassword, isGeneratingMldsa65, selectors,
                  isVlessAdvancedModalOpen, generatedKeyPair, generatedShortId,
                  generatedShadowsocksPassword, generatedMldsa65, mldsa65Pending,
                  generationCalls, encoder, form >>

\* generateVLESSEncryption from the await on; it reads the options of its own render
CompleteVLESS ==
  /\ vlessPending # <<>>
  /\ LET call == Head(vlessPending)
     IN  \/ LET data == VlessResultData(call.options, VlessKeyDraws[call.draw])
            IN  /\ generatedVLESS' = data
                /\ ShowResultDialog("vlessEncryption", data)
                /\ lastOp' = Op("complete", "vlessEncryption", "success")
         \/ \* catch: deriveKeyPair rejected
            /\ UNCHANGED << generatedVLESS, results >>
            /\ lastOp' = Caught("complete", "vlessEncryption")
  /\ vlessPending' = Tail(vlessPending)
  /\ isGeneratingVLESSEncryption' = FALSE
  /\ UNCHANGED << isDialogOpen, isGeneratingKeyPair, isGeneratingShortId,
                  isGeneratingShadowsocksPassword, isGeneratingMldsa65, selectors,
                  isVlessAdvancedModalOpen, generatedKeyPair, generatedShortId,
                  generatedShadowsocksPassword, generatedMldsa65, mldsa65Pending,
                  generationCalls, encoder, form >>

(***************************************************************************)
(* Handlers of the tab buttons, the results dialog and the dialogs         *)
(***************************************************************************)
\* what a handler that only shows a cached value leaves alone
ShowOnlyFrame ==
  UNCHANGED << isDialogOpen, flags, selectors, isVlessAdvancedModalOpen, cache, pending,
               generationCalls, encoder, form >>

viewKeyPair ==
  /\ isDialogOpen
  /\ LoaderButtonEnabled(isGeneratingKeyPair)
  /\ IF generatedKeyPair # Null
       THEN /\ ShowResultDialog("keyPair", generatedKeyPair)
            /\ lastOp' = Op("view", "keyPair", "shown")
            /\ ShowOnlyFrame
       ELSE generatePrivateAndPublicKey("view")

\* mutant: the view shows whatever is cached and never generates
viewShortId_OnlyShows ==
  /\ isDialogOpen
  /\ LoaderButtonEnabled(isGeneratingShortId)
  /\ ShowResultDialog("shortId", [shortId |-> generatedShortId])
  /\ lastOp' = Op("view", "shortId", "shown")
  /\ ShowOnlyFrame

viewShortId ==
  /\ isDialogOpen
  /\ LoaderButtonEnabled(isGeneratingShortId)
  /\ IF generatedShortId # <<>>
       THEN /\ ShowResultDialog("shortId", [shortId |-> generatedShortId])
            /\ lastOp' = Op("view", "shortId", "shown")
            /\ ShowOnlyFrame
       ELSE generateShortId("view")

viewShadowsocksPassword ==
  /\ isDialogOpen
  /\ LoaderButtonEnabled(isGeneratingShadowsocksPassword)
  /\ IF generatedShadowsocksPassword # Null
       THEN /\ ShowResultDialog("shadowsocksPassword", generatedShadowsocksPassword)
            /\ lastOp' = Op("view", "shadowsocksPassword", "shown")
            /\ ShowOnlyFrame
       ELSE generateShadowsocksPassword("view", selectedEncryptionMethod)

\* mutant: the view generates whether or not a value is cached
viewMldsa65_AlwaysGenerates ==
  /\ isDialogOpen
  /\ LoaderButtonEnabled(isGeneratingMldsa65)
  /\ handleGenerateMldsa65("view")

viewMldsa65 ==
  /\ isDialogOpen
  /\ LoaderButtonEnabled(isGeneratingMldsa65)
  /\ IF generatedMldsa65 # Null
       THEN /\ ShowResultDialog("mldsa65", generatedMldsa65)
            /\ lastOp' = Op("view", "mldsa65", "shown")
            /\ ShowOnlyFrame
       ELSE handleGenerateMldsa65("view")

\* the VLESS tab button is a LoaderButton with isLoading={false}
viewVLESS ==
  /\ isDialogOpen
  /\ LoaderButtonEnabled(FALSE)
  /\ IF generatedVLESS # Null
       THEN /\ ShowResultDialog("vlessEncryption", generatedVLESS)
            /\ lastOp' = Op("view", "vlessEncryption", "shown")
            /\ ShowOnlyFrame
       ELSE /\ isVlessAdvancedModalOpen' = TRUE
            /\ lastOp' = Op("view", "vlessEncryption", "opened")
            /\ UNCHANGED << isDialogOpen, flags, selectors, results, cache, pending,
                            generationCalls, encoder, form >>

\* the results dialog is rendered when resultType and resultData are set
ResultsDialogShown == isResultsDialogOpen /\ resultType # NoType /\ resultData # Null

\* onClick of the regenerate button of the results dialog (a plain Button)
Regenerate ==
  /\ ResultsDialogShown
  /\ CASE resultType = "keyPair" -> generatePrivateAndPublicKey("regenerate")
       [] resultType = "shortId" -> generateShortId("regenerate")
       [] resultType = "shadowsocksPassword" ->
            generateShadowsocksPassword("regenerate", selectedEncryptionMethod)
       [] resultType = "mldsa65" -> handleGenerateMldsa65("regenerate")
       [] resultType = "vlessEncryption" ->
            /\ isVlessAdvancedModalOpen' = TRUE
            /\ isResultsDialogOpen' = FALSE
            /\ lastOp' = Op("regenerate", "vlessEncryption", "opened")
            /\ UNCHANGED << isDialogOpen, flags, selectors, resultType, resultData, cache,
                            pending, generationCalls, encoder, form >>

\* the close button and onOpenChange of the results dialog
CloseResultsDialog ==
  /\ ResultsDialogShown
  /\ isResultsDialogOpen' = FALSE
  /\ lastOp' = Op("other", "none", "none")
  /\ UNCHANGED << isDialogOpen, flags, selectors, isVlessAdvancedModalOpen, resultType,
                  resultData, cache, pending, generationCalls, encoder, form >>

\* onOpenChange of the advanced settings modal
CloseVlessAdvancedModal ==
  /\ isVlessAdvancedModalOpen
  /\ isVlessAdvancedModalOpen' = FALSE
  /\ lastOp' = Op("other", "none", "none")
  /\ UNCHANGED << isDialogOpen, flags, selectors, results, cache, pending,
                  generationCalls, encoder, form >>

\* values the user gives to the fields of the advanced settings modal
ServerTicketInputs == { <<>>, <<"9","s">> }
PaddingInputs == { <<>>, <<"1","0","-","2","0",".","3","0","-","4","0">> }
Range(seq) == { seq[i] : i \in 1..Len(seq) }

\* the setVlessOptions(prev => ({ ...prev, field: value })) handlers
SetVlessOption ==
  /\ isVlessAdvancedModalOpen
  /\ InputsLeft
  /\ edits' = edits + 1
  /\ \/ \E v \in Range(VLESS_HANDSHAKE_OPTIONS) :
          vlessOptions' = [vlessOptions EXCEPT !.handshakeMethod = v]
     \/ \E v \in Range(VLESS_ENCRYPTION_METHODS) :
          vlessOptions' = [vlessOptions EXCEPT !.encryptionMethod = v]
     \/ \E v \in ServerTicketInputs : vlessOptions' = [vlessOptions EXCEPT !.serverTicket = v]
     \/ \E v \in Range(VLESS_RESUME_OPTIONS) :
          vlessOptions' = [vlessOptions EXCEPT !.clientTicket = v]
     \/ \E v \in BOOLEAN : vlessOptions' = [vlessOptions EXCEPT !.includeServerPadding = v]
     \/ \E v \in BOOLEAN : vlessOptions' = [vlessOptions EXCEPT !.includeClientPadding = v]
     \/ /\ vlessOptions.includeServerPadding
        /\ \E v \in PaddingInputs : vlessOptions' = [vlessOptions EXCEPT !.serverPadding = v]
     \/ /\ vlessOptions.includeClientPadding
        /\ \E v \in PaddingInputs : vlessOptions' = [vlessOptions EXCEPT !.clientPadding = v]
  /\ lastOp' = Op("other", "none", "none")
  /\ UNCHANGED << isDialogOpen, flags, selectedEncryptionMethod, selectedVlessVariant,
                  isVlessAdvancedModalOpen, results, cache, pending, generationCalls,
                  encoder, form >>

handleVlessVariantChange ==
  /\ isVlessAdvancedModalOpen
  /\ InputsLeft
  /\ edits' = edits + 1
  /\ \E value \in {"x25519", "mlkem768"} : selectedVlessVariant' = value
  /\ lastOp' = Op("other", "none", "none")
  /\ UNCHANGED << isDialogOpen, flags, selectedEncryptionMethod, vlessOptions,
                  isVlessAdvancedModalOpen, results, cache, pending, generationCalls,
                  encoder, form >>

\* onValueChange of the Shadowsocks method selector
SetSelectedEncryptionMethod ==
  /\ isDialogOpen
  /\ InputsLeft
  /\ edits' = edits + 1
  /\ \E m \in Range(SHADOWSOCKS_ENCRYPTION_METHODS) : selectedEncryptionMethod' = m.value
  /\ lastOp' = Op("other", "none", "none")
  /\ UNCHANGED << isDialogOpen, flags, selectedVlessVariant, vlessOptions,
                  isVlessAdvancedModalOpen, results, cache, pending, generationCalls,
                  encoder, form >>

\* the open effect: a new core gets the default document, an edited core keeps its values
\* (core_type is set in every form value of the model)
OpenEffect(editing, values) ==
  IF editing = Null
    THEN NewCoreValues
    ELSE [values EXCEPT !.restart_nodes = Defined(TRUE)]

\* the parent sets isDialogOpen for a new core and the open effect runs
OpenDialog ==
  /\ ~isDialogOpen
  /\ isDialogOpen' = TRUE
  /\ UNCHANGED << editingCore >>
  /\ SetFormValues(OpenEffect(editingCore, formValues))
  /\ lastOp' = Op("other", "none", "none")
  /\ UNCHANGED << flags, selectors, isVlessAdvancedModalOpen, results, cache, pending,
                  generationCalls, encoder, inboundTags, mutation >>

\* handleEdit(core) of cores.tsx, then the open effect
handleEdit ==
  /\ ~isDialogOpen
  /\ InputsLeft
  /\ \E core \in BackendCores :
       /\ editingCore' = core
       /\ SetFormValues(OpenEffect(core, EditedCoreValues(core)))
  /\ isDialogOpen' = TRUE
  /\ edits' = edits + 1
  /\ lastOp' = Op("other", "none", "none")
  /\ UNCHANGED << flags, selectedEncryptionMethod, selectedVlessVariant, vlessOptions,
                  isVlessAdvancedModalOpen, results, cache, pending, generationCalls, encoder,
                  inboundTags, mutation >>

\* handleModalClose(false) of cores.tsx on the form
ResetForm ==
  /\ editingCore' = Null
  /\ SetFormValues(initialDefaultValues)

\* mutant: the cleanup also clears the generated values
CloseDialog_ClearsGenerated ==
  /\ isDialogOpen
  /\ isDialogOpen' = FALSE
  /\ ResetForm
  /\ isResultsDialogOpen' = FALSE
  /\ resultType' = NoType
  /\ resultData' = Null
  /\ selectedVlessVariant' = "x25519"
  /\ vlessOptions' = createDefaultVlessOptions
  /\ generatedKeyPair' = Null
  /\ generatedShortId' = <<>>
  /\ generatedShadowsocksPassword' = Null
  /\ generatedMldsa65' = Null
  /\ generatedVLESS' = Null
  /\ lastOp' = Op("close", "none", "none")
  /\ UNCHANGED << flags, selectedEncryptionMethod, edits, isVlessAdvancedModalOpen,
                  pending, generationCalls, encoder, inboundTags, mutation >>

\* the cleanup effect
Cleanup ==
  /\ isResultsDialogOpen' = FALSE
  /\ resultType' = NoType
  /\ resultData' = Null
  /\ selectedVlessVariant' = "x25519"
  /\ vlessOptions' = createDefaultVlessOptions

\* onOpenChange(false): handleModalClose of cores.tsx, the parent clears isDialogOpen and
\* the cleanup effect runs
CloseDialog ==
  /\ isDialogOpen
  /\ isDialogOpen' = FALSE
  /\ ResetForm
  /\ Cleanup
  /\ lastOp' = Op("close", "none", "none")
  /\ UNCHANGED << flags, selectedEncryptionMethod, edits, isVlessAdvancedModalOpen, cache,
                  pending, generationCalls, encoder, inboundTags, mutation >>

\* the generation session: the dialog is opened for a new core and closed, credentials
\* are viewed, generated and regenerated, selectors and builder options are edited
Next ==
  \/ OpenDialog
  \/ CloseDialog
  \/ viewKeyPair
  \/ viewShortId
  \/ viewShadowsocksPassword
  \/ viewMldsa65
  \/ viewVLESS
  \/ Regenerate
  \/ CloseResultsDialog
  \/ CloseVlessAdvancedModal
  \/ GenerateVLESSEncryption
  \/ CompleteMldsa65
  \/ CompleteVLESS
  \/ SetVlessOption
  \/ handleVlessVariantChange
  \/ SetSelectedEncryptionMethod

Spec == Init /\ [][Next]_vars

(***************************************************************************)
(* The form of the dialog: the document, the inbound selectors, the save   *)
(***************************************************************************)
GenerationFrame ==
  UNCHANGED << isDialogOpen, flags, cache, results, selectedEncryptionMethod,
               selectedVlessVariant, vlessOptions, isVlessAdvancedModalOpen, pending,
               generationCalls, encoder >>

NameInputs == { << "n" >> }

\* field.onChange of the name input
EditName ==
  /\ isDialogOpen
  /\ FormInputsLeft
  /\ \E name \in NameInputs :
       /\ name # formValues.name
       /\ SetFormValues([formValues EXCEPT !.name = name])
  /\ edits' = edits + 1
  /\ lastOp' = Op("other", "none", "none")
  /\ UNCHANGED << editingCore, inboundTags, mutation >>
  /\ GenerationFrame

\* field.onChange of the editor with a typed text, then the watch effect
EditConfig ==
  /\ isDialogOpen
  /\ FormInputsLeft
  /\ \E d \in 1..Len(TypedDocuments) :
       /\ TypedDocuments[d] # formValues.config
       /\ SetFormValues([formValues EXCEPT !.config = TypedDocuments[d]])
  /\ edits' = edits + 1
  /\ lastOp' = Op("other", "none", "none")
  /\ UNCHANGED << editingCore, inboundTags, mutation >>
  /\ GenerationFrame

\* the restart_nodes checkbox, rendered for an edited core
ToggleRestartNodes ==
  /\ isDialogOpen
  /\ FormInputsLeft
  /\ editingCore # Null
  /\ formValues.restart_nodes # Undefined
  /\ SetFormValues([formValues EXCEPT !.restart_nodes = Defined(~@.value)])
  /\ edits' = edits + 1
  /\ lastOp' = Op("other", "none", "none")
  /\ UNCHANGED << editingCore, inboundTags, mutation >>
  /\ GenerationFrame

\* field.value || []
OrEmpty(value) == IF value = Undefined THEN <<>> ELSE value.value

\* onValueChange of the fallback selector with one of the tags it offers
SelectFallback ==
  /\ isDialogOpen
  /\ FormInputsLeft
  /\ \E i \in 1..Len(inboundTags) :
       LET value == inboundTags[i]
           currentValue == OrEmpty(formValues.fallback_id)
       IN  /\ Trim(value) # <<>>
           /\ value \notin Range(currentValue)
           /\ SetFormValues([formValues EXCEPT
                               !.fallback_id = Defined(Append(currentValue, value))])
  /\ edits' = edits + 1
  /\ lastOp' = Op("other", "none", "none")
  /\ UNCHANGED << editingCore, inboundTags, mutation >>
  /\ GenerationFrame

\* onValueChange of the excluded selector with one of the tags it offers
SelectExcluded ==
  /\ isDialogOpen
  /\ FormInputsLeft
  /\ \E i \in 1..Len(inboundTags) :
       LET value == inboundTags[i]
           currentValue == OrEmpty(formValues.excluded_inbound_ids)
       IN  /\ Trim(value) # <<>>
           /\ value \notin Range(currentValue)
           /\ SetFormValues([formValues EXCEPT
                               !.excluded_inbound_ids = Defined(Append(currentValue, value))])
  /\ edits' = edits + 1
  /\ lastOp' = Op("other", "none", "none")
  /\ UNCHANGED << editingCore, inboundTags, mutation >>
  /\ GenerationFrame

\* mutant: no catch block, an error of the body escapes and the tags stay
debouncedConfigChange_NoCatch ==
  /\ debounced # Null
  /\ debounced' = Null
  /\ IF ExtractedTags[debounced.value].threw
       THEN /\ UNCHANGED << inboundTags >>
            /\ lastOp' = [op |-> "extract", kind |-> "none", outcome |-> "failure",
                          toasts |-> 0, thrown |-> TRUE]
       ELSE /\ inboundTags' = ExtractedTags[debounced.value].tags
            /\ lastOp' = Op("extract", "none", "success")
  /\ UNCHANGED << formValues, editingCore, mutation, edits >>
  /\ GenerationFrame

\* the debounce timer fires: the body of debouncedConfigChange runs on the last text
debouncedConfigChange ==
  /\ debounced # Null
  /\ inboundTags' = ExtractedTags[debounced.value].tags
  /\ debounced' = Null
  /\ lastOp' = Op("extract", "none",
                  IF ExtractedTags[debounced.value].threw THEN "caught" ELSE "success")
  /\ UNCHANGED << formValues, editingCore, mutation, edits >>
  /\ GenerationFrame

\* mutant: the request carries the cached key pair
RequestOf_WithKeyPair(values, editing) ==
  LET data == [ name |-> values.name,
                config |-> ParsedDocument[values.config].val,
                fallbacks_inbound_tags |-> OrEmpty(values.fallback_id),
                exclude_inbound_tags |-> OrEmpty(values.excluded_inbound_ids),
                core_type |-> values.core_type,
                private_key |-> generatedKeyPair ]
  IN  IF editing # Null
        THEN [ kind |-> "modify", coreId |-> editing.id, data |-> data,
               params |-> [restart_nodes |-> values.restart_nodes.value] ]
        ELSE [ kind |-> "create", data |-> data ]

\* the request onSubmit builds from the values of the form
RequestOf(values, editing) ==
  LET data == [ name |-> values.name,
                config |-> ParsedDocument[values.config].val,
                fallbacks_inbound_tags |-> OrEmpty(values.fallback_id),
                exclude_inbound_tags |-> OrEmpty(values.excluded_inbound_ids),
                core_type |-> values.core_type ]
  IN  IF editing # Null
        THEN [ kind |-> "modify", coreId |-> editing.id, data |-> data,
               params |-> [restart_nodes |-> values.restart_nodes.value] ]
        ELSE [ kind |-> "create", data |-> data ]

\* the schema of the form lets handleSubmit call onSubmit; restart_nodes defaults to true
SchemaAccepts(values) == values.name # <<>> /\ values.config # <<>>
SchemaOutput(values) ==
  [values EXCEPT !.restart_nodes = IF @ = Undefined THEN Defined(TRUE) ELSE @]

\* onSubmit up to its await: the submit button is disabled while a mutation is pending
onSubmit ==
  /\ isDialogOpen
  /\ InputsLeft
  /\ mutation = Null
  /\ SchemaAccepts(formValues)
  /\ IF ParsedDocument[formValues.config].ok
       THEN /\ mutation' = RequestOf(SchemaOutput(formValues), editingCore)
            /\ lastOp' = Op("submit", "none", "pending")
       ELSE /\ mutation' = Null
            /\ lastOp' = [op |-> "submit", kind |-> "none", outcome |-> "failure",
                          toasts |-> 1, thrown |-> FALSE]
  /\ edits' = edits + 1
  /\ UNCHANGED << formValues, editingCore, inboundTags, debounced >>
  /\ GenerationFrame

\* the mutation is answered: on success onOpenChange(false) and form.reset(), on failure
\* the catch block notifies
CompleteSubmit ==
  /\ mutation # Null
  /\ mutation' = Null
  /\ \/ /\ isDialogOpen' = FALSE
        /\ ResetForm
        /\ IF isDialogOpen
             THEN Cleanup
             ELSE UNCHANGED << results, selectedVlessVariant, vlessOptions >>
        /\ lastOp' = Op("submit", "none", "success")
     \/ /\ lastOp' = [op |-> "submit", kind |-> "none", outcome |-> "failure",
                      toasts |-> 1, thrown |-> FALSE]
        /\ UNCHANGED << isDialogOpen, formValues, editingCore, debounced, results,
                        selectedVlessVariant, vlessOptions >>
  /\ UNCHANGED << flags, cache, selectedEncryptionMethod, edits, isVlessAdvancedModalOpen,
                  pending, generationCalls, encoder, inboundTags >>

\* the dialog with its form: cores are created and edited, the document and the other
\* form values are edited, the debounce fires, the form is saved, and credentials are
\* viewed, generated and regenerated meanwhile
NextForm ==
  \/ OpenDialog
  \/ handleEdit
  \/ CloseDialog
  \/ EditName
  \/ EditConfig
  \/ ToggleRestartNodes
  \/ SelectFallback
  \/ SelectExcluded
  \/ debouncedConfigChange
  \/ onSubmit
  \/ CompleteSubmit
  \/ viewKeyPair
  \/ viewShortId
  \/ viewShadowsocksPassword
  \/ viewMldsa65
  \/ viewVLESS
  \/ Regenerate
  \/ CloseResultsDialog
  \/ GenerateVLESSEncryption
  \/ CompleteMldsa65
  \/ CompleteVLESS

SpecForm == Init /\ [][NextForm]_vars

(***************************************************************************)
(* The encoder as a function: one call of buildConfig on drawn arguments   *)
(***************************************************************************)
StringsUpTo(alphabet, n) == UNION { [1..k -> alphabet] : k \in 0..n }

BcTicketInputs == StringsUpTo({"s", " ", "."}, MaxTicketLen) \cup { DEFAULT_VLESS_SERVER_TICKET }
BcPaddingInputs ==
  StringsUpTo({"1", " ", "."}, MaxPadLen)
    \cup { DEFAULT_VLESS_PADDING, <<"1","0","-","2","0",".","3","0","-","4","0">> }
BcInputs ==
  [ handshakeMethod  : { DEFAULT_VLESS_HANDSHAKE, <<" ">> },
    encryptionMethod : { VLESS_ENCRYPTION_METHODS[1], VLESS_ENCRYPTION_METHODS[2] },
    ticketValue      : BcTicketInputs,
    paddingValue     : BcPaddingInputs,
    includePadding   : BOOLEAN,
    authParam        : { <<"A","B","C">>, VlessKeyDraws[1].x25519ClientKey },
    fallbackTicket   : { DEFAULT_VLESS_SERVER_TICKET, DEFAULT_VLESS_RESUME } ]

InitEnc ==
  /\ InitModal
  /\ bcArgs \in BcInputs
  /\ bcOut = Null
  /\ NoVlessEncoding

\* handshakeMethod and encryptionMethod are normalized once, then buildConfig runs
ApplyBuildConfig ==
  /\ bcArgs # Null
  /\ bcOut = Null
  /\ bcOut' = [ value |->
                  BuildConfig(NormalizeOption(bcArgs.handshakeMethod, DEFAULT_VLESS_HANDSHAKE),
                              NormalizeOption(bcArgs.encryptionMethod, DEFAULT_VLESS_ENCRYPTION),
                              bcArgs) ]
  /\ UNCHANGED << isDialogOpen, flags, cache, results, selectors, isVlessAdvancedModalOpen,
                  pending, generationCalls, lastOp, bcArgs, vrOptions, vrDraw, vrOut, vrPrev,
                  form >>

NextEnc == ApplyBuildConfig

SpecEnc == InitEnc /\ [][NextEnc]_vars

(***************************************************************************)
(* The encoding part of generateVLESSEncryption applied to builder options *)
(* of every shape, and applied again after one checkbox has been toggled   *)
(* with the key material kept                                              *)
(***************************************************************************)
VrHandshakeInputs == { DEFAULT_VLESS_HANDSHAKE, <<>>, <<" ">>, <<" ", "h", " ">> }
VrEncryptionInputs == { DEFAULT_VLESS_ENCRYPTION, <<" ">>, <<"x", " ">> }
VrServerTicketInputs == { DEFAULT_VLESS_SERVER_TICKET, <<>>, <<" ">>, <<" ", "9", "s">> }
VrClientTicketInputs == { DEFAULT_VLESS_RESUME, <<>>, <<" ", "1", "s">> }
VrPaddingInputs ==
  { DEFAULT_VLESS_PADDING, <<>>, <<".">>, <<"1", ".", "2">>, <<" ", "1", " ", ".", ".", "2">> }
VrInputs ==
  [ handshakeMethod      : VrHandshakeInputs,
    encryptionMethod     : VrEncryptionInputs,
    serverTicket         : VrServerTicketInputs,
    clientTicket         : VrClientTicketInputs,
    serverPadding        : VrPaddingInputs,
    clientPadding        : VrPaddingInputs,
    includeServerPadding : BOOLEAN,
    includeClientPadding : BOOLEAN ]

InitVless ==
  /\ InitModal
  /\ bcArgs = Null
  /\ bcOut = Null
  /\ vrOptions \in VrInputs
  /\ vrDraw \in 1..MaxSeed
  /\ vrOut = Null
  /\ vrPrev = Null

ModalFrame ==
  UNCHANGED << isDialogOpen, flags, cache, results, selectors, isVlessAdvancedModalOpen,
               pending, generationCalls, lastOp, bcArgs, bcOut, form >>

\* resultData as generateVLESSEncryption builds it from the options and the keys
EncodeVlessResult ==
  /\ vrOptions # Null
  /\ vrOut = Null
  /\ vrOut' = VlessResultData(vrOptions, VlessKeyDraws[vrDraw])
  /\ UNCHANGED << vrOptions, vrDraw, vrPrev >>
  /\ ModalFrame

\* the includeClientPadding checkbox is toggled and the result is built again
ToggleIncludeClientPadding ==
  /\ vrOut # Null
  /\ vrPrev = Null
  /\ vrPrev' = vrOut
  /\ vrOptions' = [vrOptions EXCEPT !.includeClientPadding = ~@]
  /\ vrOut' = VlessResultData(vrOptions', VlessKeyDraws[vrDraw])
  /\ UNCHANGED << vrDraw >>
  /\ ModalFrame

NextVless == EncodeVlessResult \/ ToggleIncludeClientPadding

SpecVless == InitVless /\ [][NextVless]_vars

(***************************************************************************)
(* Reference definitions used to state the encoder's properties.  They are *)
(* written by position, not by scanning, and share nothing with the        *)
(* definitions above.                                                      *)
(***************************************************************************)
IsBlank(s) == \A i \in 1..Len(s) : s[i] \in WHITESPACE

\* s without its leading and trailing whitespace
Stripped(s) ==
  IF IsBlank(s) THEN <<>>
  ELSE LET inked == { i \in 1..Len(s) : s[i] \notin WHITESPACE }
           lo == CHOOSE i \in inked : \A j \in inked : i <= j
           hi == CHOOSE i \in inked : \A j \in inked : j <= i
       IN  SubSeq(s, lo, hi)

\* the option value used for a segment: the fallback for a blank value
Effective(value, fallback) == IF IsBlank(value) THEN fallback ELSE Stripped(value)

\* the non-blank stretches between the dots of s, stripped, from left to right
PiecesOf(s) ==
  LET cuts == {0} \cup { i \in 1..Len(s) : s[i] = "." } \cup { Len(s) + 1 }
      after(c) == CHOOSE d \in cuts : d > c /\ \A e \in cuts : e > c => d <= e
      stretch(c) == SubSeq(s, c + 1, after(c) - 1)
      starts == { c \in cuts : c <= Len(s) /\ ~IsBlank(stretch(c)) }
      nth(j) == CHOOSE c \in starts : Cardinality({ e \in starts : e < c }) = j - 1
  IN  [ j \in 1..Cardinality(starts) |-> Stripped(stretch(nth(j))) ]

\* every piece preceded by a dot
RECURSIVE Dotted(_)
Dotted(pieces) ==
  IF pieces = <<>> THEN <<>> ELSE << "." >> \o Head(pieces) \o Dotted(Tail(pieces))

\* handshake '.' encryption '.' ticket of an application of the encoder
LeadingSegments(a) ==
  Effective(a.handshakeMethod, DEFAULT_VLESS_HANDSHAKE) \o << "." >>
    \o Effective(a.encryptionMethod, DEFAULT_VLESS_ENCRYPTION) \o << "." >>
    \o Effective(a.ticketValue, a.fallbackTicket)

ExampleServerArgs(includePadding) ==
  [ handshakeMethod  |-> DEFAULT_VLESS_HANDSHAKE,
    encryptionMethod |-> DEFAULT_VLESS_ENCRYPTION,
    ticketValue      |-> DEFAULT_VLESS_SERVER_TICKET,
    paddingValue     |-> <<"1","0","-","2","0",".","3","0","-","4","0">>,
    includePadding   |-> includePadding,
    authParam        |-> <<"A","B","C">>,
    fallbackTicket   |-> DEFAULT_VLESS_SERVER_TICKET ]

(***************************************************************************)
(* Properties of the encoder, under SpecEnc                                *)
(***************************************************************************)
\* C9: with the padding inclusion flag unset the output is exactly
\* handshake '.' encryption '.' ticket '.' token, whatever the padding string (the
\* three leading segments being the option values as normalized); the spec's example
\* gives 'mlkem768x25519plus.native.600s.ABC'.
C9_NoPaddingWhenFlagUnset ==
  (bcOut # Null /\ ~bcArgs.includePadding) =>
    /\ bcOut.value = LeadingSegments(bcArgs) \o << "." >> \o bcArgs.authParam
    /\ bcArgs = ExampleServerArgs(FALSE) =>
         bcOut.value = <<"m","l","k","e","m","7","6","8","x","2","5","5","1","9","p","l","u","s",".","n","a","t","i","v","e",".","6","0","0","s",".","A","B","C">>

\* C9 witness: the spec's example has been encoded with the flag unset and a
\* non-empty padding string
C9_Witness ==
  /\ bcOut # Null
  /\ bcArgs = ExampleServerArgs(FALSE)
  /\ bcOut.value = <<"m","l","k","e","m","7","6","8","x","2","5","5","1","9","p","l","u","s",".","n","a","t","i","v","e",".","6","0","0","s",".","A","B","C">>

\* C10: with the padding inclusion flag set the output is the three leading segments,
\* then the non-empty trimmed pieces of the padding string (of the default padding
\* when the padding string is blank) in their order, then the token; the spec's
\* example gives 'mlkem768x25519plus.native.600s.10-20.30-40.ABC'.
C10_PaddingPiecesWhenFlagSet ==
  (bcOut # Null /\ bcArgs.includePadding) =>
    /\ bcOut.value =
         LeadingSegments(bcArgs)
           \o Dotted(PiecesOf(IF IsBlank(bcArgs.paddingValue) THEN DEFAULT_VLESS_PADDING
                              ELSE bcArgs.paddingValue))
           \o << "." >> \o bcArgs.authParam
    /\ bcArgs = ExampleServerArgs(TRUE) =>
         bcOut.value = <<"m","l","k","e","m","7","6","8","x","2","5","5","1","9","p","l","u","s",".","n","a","t","i","v","e",".","6","0","0","s",".","1","0","-","2","0",".","3","0","-","4","0",".","A","B","C">>

\* C10 witness: a padding string with blank and untrimmed pieces has been encoded
\* with the flag set
C10_Witness ==
  /\ bcOut # Null
  /\ bcArgs.includePadding
  /\ bcArgs.paddingValue = << ".", " ", "1" >>
  /\ bcArgs.handshakeMethod = DEFAULT_VLESS_HANDSHAKE
  /\ bcArgs.encryptionMethod = DEFAULT_VLESS_ENCRYPTION
  /\ bcArgs.ticketValue = DEFAULT_VLESS_SERVER_TICKET
  /\ bcArgs.authParam = <<"A","B","C">>
  /\ bcOut.value = <<"m","l","k","e","m","7","6","8","x","2","5","5","1","9","p","l","u","s",".","n","a","t","i","v","e",".","6","0","0","s",".","1",".","A","B","C">>

(***************************************************************************)
(* Properties of the generation session state, under Spec                  *)
(***************************************************************************)
\* what the results dialog is given for a cached value of a kind
Display(kind) == IF kind = "shortId" THEN [shortId |-> generatedShortId] ELSE Generated(kind)

C2_ViewOfCachedNeverGenerates ==
  [][ \A k \in Kinds :
        (lastOp'.op = "view" /\ lastOp'.kind = k /\ IsCached(k)) =>
          /\ generationCalls' = generationCalls
          /\ cache' = cache
          /\ pending' = pending
          /\ isResultsDialogOpen'
          /\ resultType' = k
          /\ resultData' = Display(k) ]_vars

\* C2 witness: after one ML-DSA-65 generation a view has shown the cached value and
\* the call counter of the kind is still 1
C2_Witness ==
  /\ lastOp = Op("view", "mldsa65", "shown")
  /\ generationCalls["mldsa65"] = 1
  /\ generatedMldsa65 # Null
  /\ resultData = generatedMldsa65

\* C3 as stated: a view of any kind without a cached value invokes that kind's
\* generation.
C3_ViewWithoutCacheGenerates ==
  [][ \A k \in Kinds :
        (lastOp'.op = "view" /\ lastOp'.kind = k /\ ~IsCached(k)) =>
          generationCalls'[k] = generationCalls[k] + 1 ]_vars

\* C3 amended: a view without a cached value invokes the kind's generation for the
\* key pair, the short id, the Shadowsocks password and ML-DSA-65, and the cache entry
\* is present once that generation has succeeded; for VLESS it only opens the advanced
\* settings modal and invokes no generation.
C3_ViewWithoutCache ==
  [][ /\ \A k \in Kinds :
           (lastOp'.op = "view" /\ lastOp'.kind = k /\ ~IsCached(k)) =>
             IF k = "vlessEncryption"
               THEN /\ generationCalls' = generationCalls
                    /\ pending' = pending
                    /\ cache' = cache
                    /\ isVlessAdvancedModalOpen'
               ELSE /\ generationCalls' = [generationCalls EXCEPT ![k] = @ + 1]
                    /\ lastOp'.outcome \in {"success", "failure", "started"}
                    /\ lastOp'.outcome = "success" => IsCached(k)'
                    /\ lastOp'.outcome = "started" => InFlight(k)' = InFlight(k) + 1
      /\ \A k \in Kinds :
           (lastOp'.op = "complete" /\ lastOp'.kind = k /\ lastOp'.outcome = "success"
              /\ lastOp' # lastOp) => IsCached(k)' ]_vars

\* C3 witness: the first short id was generated by a view, and a later view of VLESS
\* without a cached result has opened the advanced settings modal without a call
C3_Witness ==
  /\ lastOp = Op("view", "vlessEncryption", "opened")
  /\ isVlessAdvancedModalOpen
  /\ generatedVLESS = Null
  /\ generatedShortId # <<>>
  /\ generationCalls = [k \in Kinds |-> IF k = "shortId" THEN 1 ELSE 0]

\* the values a successful generation of a kind can produce
Produced(kind) ==
  CASE kind = "keyPair" -> Range(KeyPairDraws)
    [] kind = "shortId" -> Range(ShortIdDraws)
    [] kind = "shadowsocksPassword" ->
         UNION { Range(ShadowsocksDraws[i]) : i \in 1..Len(SHADOWSOCKS_ENCRYPTION_METHODS) }
    [] kind = "mldsa65" -> Range(Mldsa65Draws)

\* C4 as stated: a regenerate of any kind invokes that kind's generation.
C4_RegenerateAlwaysGenerates ==
  [][ \A k \in Kinds :
        (lastOp'.op = "regenerate" /\ lastOp'.kind = k) =>
          generationCalls'[k] = generationCalls[k] + 1 ]_vars

\* C4 amended: a regenerate of the key pair, the short id, the Shadowsocks password
\* or ML-DSA-65 invokes the kind's generation, and when it succeeds the cache entry is
\* the newly produced value; a regenerate of VLESS opens the advanced settings modal,
\* closes the results dialog, invokes no generation and leaves the cache as it is.
C4_Regenerate ==
  [][ /\ \A k \in Kinds :
           (lastOp'.op = "regenerate" /\ lastOp'.kind = k) =>
             IF k = "vlessEncryption"
               THEN /\ generationCalls' = generationCalls
                    /\ pending' = pending
                    /\ cache' = cache
                    /\ isVlessAdvancedModalOpen'
                    /\ ~isResultsDialogOpen'
               ELSE /\ generationCalls' = [generationCalls EXCEPT ![k] = @ + 1]
                    /\ lastOp'.outcome = "success" =>
                         /\ Generated(k)' \in Produced(k)
                         /\ resultType' = k
                         /\ resultData' = Display(k)'
                    /\ lastOp'.outcome = "started" => InFlight(k)' = InFlight(k) + 1
      /\ (lastOp'.op = "complete" /\ lastOp'.kind = "mldsa65" /\ lastOp'.outcome = "success"
            /\ lastOp' # lastOp) =>
           /\ generatedMldsa65' \in Produced("mldsa65")
           /\ resultData' = generatedMldsa65' ]_vars

\* C4 witness: a regenerate has made the second key pair call and the cached key pair
\* is the newly produced one, shown in the results dialog
C4_Witness ==
  /\ lastOp = Op("regenerate", "keyPair", "success")
  /\ generationCalls["keyPair"] = 2
  /\ generatedKeyPair = KeyPairDraws[2]
  /\ resultData = generatedKeyPair

\* C5: at most one generation of each kind is in flight.
C5_AtMostOneInFlight ==
  \A k \in Kinds : InFlight(k) <= 1

\* a cached value of a kind, when present, has every one of its parts
Complete(kind) ==
  CASE kind = "keyPair" ->
         generatedKeyPair # Null =>
           /\ DOMAIN generatedKeyPair = {"privateKey", "publicKey"}
           /\ generatedKeyPair.privateKey # <<>>
           /\ generatedKeyPair.publicKey # <<>>
    [] kind = "shortId" -> TRUE
    [] kind = "shadowsocksPassword" ->
         generatedShadowsocksPassword # Null =>
           /\ DOMAIN generatedShadowsocksPassword = {"password", "encryptionMethod"}
           /\ generatedShadowsocksPassword.password # <<>>
    [] kind = "mldsa65" ->
         generatedMldsa65 # Null =>
           /\ DOMAIN generatedMldsa65 = {"seed", "verify"}
           /\ generatedMldsa65.seed # <<>>
           /\ generatedMldsa65.verify # <<>>
    [] kind = "vlessEncryption" ->
         generatedVLESS # Null =>
           /\ DOMAIN generatedVLESS = {"x25519", "mlkem768", "options"}
           /\ \A v \in {"x25519", "mlkem768"} :
                /\ generatedVLESS[v].decryption # <<>>
                /\ generatedVLESS[v].encryption # <<>>

\* C6: a generation that fails leaves the cache of every kind as it was; a cache entry
\* changes only in a step where a generation of its kind succeeds, and the entry it
\* gets is a complete result.
C6_FailureLeavesCache ==
  [][ /\ lastOp'.outcome = "failure" => cache' = cache
      /\ \A k \in Kinds :
           Generated(k)' # Generated(k) =>
             /\ lastOp'.kind = k
             /\ lastOp'.outcome = "success"
             /\ lastOp'.op \in {"view", "regenerate", "complete"}
             /\ IsCached(k)'
             /\ Complete(k)' ]_vars

\* C6 witness: a VLESS generation has been rejected at the key derivation while a
\* result of an earlier VLESS generation is cached
C6_Witness ==
  /\ lastOp = Caught("complete", "vlessEncryption")
  /\ generationCalls["vlessEncryption"] = 2
  /\ generatedVLESS # Null
  /\ Complete("vlessEncryption")

\* C7: a generation that fails ends with exactly one error notification and nothing
\* thrown to its caller, starts no further generation call, and leaves the in-progress
\* flag of its kind false.
C7_FailureCaughtOnce ==
  [][ \A k \in Kinds :
        (lastOp'.outcome = "failure" /\ lastOp'.kind = k) =>
          /\ lastOp'.toasts = 1
          /\ ~lastOp'.thrown
          /\ ~IsGenerating(k)'
          /\ IF lastOp'.op = "complete"
               THEN /\ generationCalls' = generationCalls
                    /\ InFlight(k)' = InFlight(k) - 1
               ELSE /\ generationCalls' = [generationCalls EXCEPT ![k] = @ + 1]
                    /\ InFlight(k)' = InFlight(k)
          /\ \A j \in Kinds \ {k} : InFlight(j)' = InFlight(j) ]_vars

\* C7 witness: the only ML-DSA-65 generation has been rejected, none is in flight and
\* the flag is down
C7_Witness ==
  /\ lastOp = Caught("complete", "mldsa65")
  /\ lastOp.toasts = 1
  /\ generationCalls["mldsa65"] = 1
  /\ mldsa65Pending = 0
  /\ ~isGeneratingMldsa65

\* the part of a dotted string after its last dot
LastSegment(str) ==
  LET dots == {i \in 1..Len(str) : str[i] = "."}
      last == IF dots = {} THEN 0 ELSE CHOOSE i \in dots : \A j \in dots : j <= i
  IN  SubSeq(str, last + 1, Len(str))

\* for each outcome of the random draws of one call: the halves of its X25519 pair and
\* its 64-byte seed with the client key derived from that seed, as encoded tokens
CallTokens ==
  [ r \in 1..MaxSeed |->
      LET pair == GenerateKeyPair(r)
          seed == RandomBytes(MLKEM768_SEED_BYTES, r + MaxSeed)
      IN  [ secret |-> StripPadding(EncodeURLSafe(pair.secretKey)),
            public |-> StripPadding(EncodeURLSafe(X25519ScalarMultBase(pair.secretKey))),
            seedLen |-> Len(seed),
            seed |-> StripPadding(EncodeURLSafe(seed)),
            client |-> StripPadding(EncodeURLSafe(MlKem768DeriveKeyPair(seed)[1])) ] ]

\* C8: in a cached VLESS result the x25519 tokens are the private and public halves of
\* one X25519 key pair and the mlkem768 tokens are a 64-byte seed and the client key
\* derived from it, all four from one generation call.
C8_TokensOfOneCall ==
  generatedVLESS # Null =>
    \E r \in 1..MaxSeed :
      /\ LastSegment(generatedVLESS.x25519.decryption) = CallTokens[r].secret
      /\ LastSegment(generatedVLESS.x25519.encryption) = CallTokens[r].public
      /\ CallTokens[r].seedLen = 64
      /\ LastSegment(generatedVLESS.mlkem768.decryption) = CallTokens[r].seed
      /\ LastSegment(generatedVLESS.mlkem768.encryption) = CallTokens[r].client

\* C8 witness: a second VLESS generation with other random draws has replaced the
\* result of the first
C8_Witness ==
  /\ lastOp = Op("complete", "vlessEncryption", "success")
  /\ generationCalls["vlessEncryption"] = 2
  /\ vlessPending = <<>>
  /\ generatedVLESS # Null
  /\ LastSegment(generatedVLESS.x25519.decryption) = CallTokens[2].secret

(***************************************************************************)
(* Properties of the encoding of a VLESS result, under SpecVless           *)
(***************************************************************************)
HasPrefix(str, pre) == Len(str) >= Len(pre) /\ SubSeq(str, 1, Len(pre)) = pre

\* a dotted string up to and including its last dot
UpToLastDot(str) == SubSeq(str, 1, Len(str) - Len(LastSegment(str)))

\* the padding pieces a role contributes: none unless its checkbox is set
PaddingPieces(include, padding) ==
  IF include
    THEN PiecesOf(IF IsBlank(padding) THEN DEFAULT_VLESS_PADDING ELSE padding)
    ELSE <<>>

\* everything before the token in the string of a role
ExpectedUpToToken(options, role) ==
  LET h == Effective(options.handshakeMethod, DEFAULT_VLESS_HANDSHAKE)
      e == Effective(options.encryptionMethod, DEFAULT_VLESS_ENCRYPTION)
      t == IF role = "decryption"
             THEN Effective(options.serverTicket, DEFAULT_VLESS_SERVER_TICKET)
             ELSE Effective(options.clientTicket, DEFAULT_VLESS_RESUME)
      p == IF role = "decryption"
             THEN PaddingPieces(options.includeServerPadding, options.serverPadding)
             ELSE PaddingPieces(options.includeClientPadding, options.clientPadding)
  IN  h \o << "." >> \o e \o << "." >> \o t \o Dotted(p) \o << "." >>

\* C11: the three leading segments of every encoded string are non-empty: a blank
\* handshake method, encryption method or ticket is replaced by 'mlkem768x25519plus',
\* 'native', and '600s' (server role) or the first resumption option '0rtt' (client
\* role); a non-blank value is used trimmed.
C11_LeadingSegmentsNormalized ==
  vrOut # Null =>
    LET segment(value, default) == IF IsBlank(value) THEN default ELSE Stripped(value)
        h == segment(vrOptions.handshakeMethod,
                     <<"m","l","k","e","m","7","6","8","x","2","5","5","1","9","p","l","u","s">>)
        e == segment(vrOptions.encryptionMethod, <<"n","a","t","i","v","e">>)
        st == segment(vrOptions.serverTicket, <<"6","0","0","s">>)
        ct == segment(vrOptions.clientTicket, <<"0","r","t","t">>)
    IN  /\ VLESS_RESUME_OPTIONS[1] = <<"0","r","t","t">>
        /\ h # <<>> /\ e # <<>> /\ st # <<>> /\ ct # <<>>
        /\ \A v \in {"x25519", "mlkem768"} :
             /\ HasPrefix(vrOut[v].decryption, h \o <<".">> \o e \o <<".">> \o st \o <<".">>)
             /\ HasPrefix(vrOut[v].encryption, h \o <<".">> \o e \o <<".">> \o ct \o <<".">>)

\* C11 witness: a result has been encoded from a blank handshake method, an untrimmed
\* encryption method and two empty tickets
C11_Witness ==
  /\ vrOut # Null
  /\ vrOptions.handshakeMethod = <<" ">>
  /\ vrOptions.encryptionMethod = <<"x", " ">>
  /\ vrOptions.serverTicket = <<>>
  /\ vrOptions.clientTicket = <<>>
  /\ HasPrefix(vrOut.x25519.encryption,
       <<"m","l","k","e","m","7","6","8","x","2","5","5","1","9","p","l","u","s",".","x",".","0","r","t","t",".">>)
  /\ HasPrefix(vrOut.mlkem768.decryption,
       <<"m","l","k","e","m","7","6","8","x","2","5","5","1","9","p","l","u","s",".","x",".","6","0","0","s",".">>)

\* C12 as stated: toggling only includeClientPadding changes the encryption string of
\* both variants.
C12_ToggleChangesBoth ==
  vrPrev # Null =>
    /\ vrOut.x25519.encryption # vrPrev.x25519.encryption
    /\ vrOut.mlkem768.encryption # vrPrev.mlkem768.encryption

\* C12 amended: toggling only includeClientPadding changes the encryption strings of
\* both variants or of neither, never of just one; both change exactly when the client
\* padding string (the default padding when it is blank) has a non-blank piece, and
\* the decryption strings stay as they were.
C12_ToggleChangesBothOrNeither ==
  vrPrev # Null =>
    LET xChanged == vrOut.x25519.encryption # vrPrev.x25519.encryption
        mChanged == vrOut.mlkem768.encryption # vrPrev.mlkem768.encryption
    IN  /\ xChanged <=> mChanged
        /\ xChanged <=> PaddingPieces(TRUE, vrOptions.clientPadding) # <<>>
        /\ vrOut.x25519.decryption = vrPrev.x25519.decryption
        /\ vrOut.mlkem768.decryption = vrPrev.mlkem768.decryption

\* C12 witness: the checkbox has been set on a client padding with an empty and two
\* untrimmed pieces, and both encryption strings have changed
C12_Witness ==
  /\ vrPrev # Null
  /\ vrOptions.includeClientPadding
  /\ vrOptions.clientPadding = <<" ", "1", " ", ".", ".", "2">>
  /\ vrOut.x25519.encryption # vrPrev.x25519.encryption
  /\ vrOut.mlkem768.encryption # vrPrev.mlkem768.encryption

\* C13: in a VLESS result, for each role the x25519 string and the mlkem768 string
\* are the encoding of the one options snapshot stored with the result: they agree in
\* every segment before the token (handshake, encryption, ticket, padding pieces in
\* order) and end in their own tokens.
C13_VariantsDifferInTokenOnly ==
  vrOut # Null =>
    /\ vrOut.options = vrOptions
    /\ \A role \in {"decryption", "encryption"} :
         /\ UpToLastDot(vrOut.x25519[role]) = UpToLastDot(vrOut.mlkem768[role])
         /\ UpToLastDot(vrOut.x25519[role]) = ExpectedUpToToken(vrOut.options, role)
    /\ LastSegment(vrOut.x25519.decryption) = CallTokens[vrDraw].secret
    /\ LastSegment(vrOut.x25519.encryption) = CallTokens[vrDraw].public
    /\ LastSegment(vrOut.mlkem768.decryption) = CallTokens[vrDraw].seed
    /\ LastSegment(vrOut.mlkem768.encryption) = CallTokens[vrDraw].client

\* C13 witness: a result with padding pieces in both roles and different tickets has
\* been encoded, and its two server strings differ
C13_Witness ==
  /\ vrOut # Null
  /\ vrOptions.includeServerPadding
  /\ vrOptions.includeClientPadding
  /\ vrOptions.serverPadding = <<"1", ".", "2">>
  /\ vrOptions.clientPadding = DEFAULT_VLESS_PADDING
  /\ vrOptions.serverTicket = <<" ", "9", "s">>
  /\ vrOut.x25519.decryption # vrOut.mlkem768.decryption
  /\ UpToLastDot(vrOut.x25519.decryption) = UpToLastDot(vrOut.mlkem768.decryption)

(***************************************************************************)
(* Decoders used to state the shape of the generated credentials, written  *)
(* by position                                                             *)
(***************************************************************************)
StdBase64Chars ==
  <<"A","B","C","D","E","F","G","H","I","J","K","L","M",
    "N","O","P","Q","R","S","T","U","V","W","X","Y","Z",
    "a","b","c","d","e","f","g","h","i","j","k","l","m",
    "n","o","p","q","r","s","t","u","v","w","x","y","z",
    "0","1","2","3","4","5","6","7","8","9","+","/">>

StdBase64Value(c) == (CHOOSE k \in 1..64 : StdBase64Chars[k] = c) - 1

\* the number of '=' a standard base64 string ends in
StdBase64Pads(str) ==
  IF Len(str) >= 2 /\ str[Len(str)] = "=" /\ str[Len(str) - 1] = "=" THEN 2
  ELSE IF Len(str) >= 1 /\ str[Len(str)] = "=" THEN 1
  ELSE 0

\* str is padded standard base64: whole groups of four, padding only at the end
IsStdBase64(str) ==
  /\ Len(str) % 4 = 0
  /\ \A i \in 1..(Len(str) - StdBase64Pads(str)) :
       \E k \in 1..64 : StdBase64Chars[k] = str[i]

\* the bytes a padded standard base64 string decodes to
StdBase64Decode(str) ==
  LET n == (3 * (Len(str) \div 4)) - StdBase64Pads(str)
      v(i) == StdBase64Value(str[i])
      byteAt(j) ==
        LET g == 4 * ((j - 1) \div 3)
            pos == (j - 1) % 3
        IN  CASE pos = 0 -> (v(g + 1) * 4) + (v(g + 2) \div 16)
              [] pos = 1 -> ((v(g + 2) % 16) * 16) + (v(g + 3) \div 4)
              [] pos = 2 -> ((v(g + 3) % 4) * 64) + v(g + 4)
  IN  [ j \in 1..n |-> byteAt(j) ]

LowerHexChars == <<"0","1","2","3","4","5","6","7","8","9","a","b","c","d","e","f">>

IsLowerHex(str) == \A i \in 1..Len(str) : \E k \in 1..16 : LowerHexChars[k] = str[i]

LowerHexValue(c) == (CHOOSE k \in 1..16 : LowerHexChars[k] = c) - 1

\* the bytes a string of hex digit pairs stands for
HexDecode(str) ==
  [ j \in 1..(Len(str) \div 2) |->
      (16 * LowerHexValue(str[(2 * j) - 1])) + LowerHexValue(str[2 * j]) ]

\* the key length the cipher method of a given name mandates
KeyLengthOf(methodName) ==
  CASE methodName = "2022-blake3-aes-128-gcm" -> 16
    [] methodName = "2022-blake3-aes-256-gcm" -> 32

\* what every password a generation can produce decodes to
PasswordBytes ==
  [ credential \in UNION { Range(ShadowsocksDraws[i]) :
                             i \in 1..Len(SHADOWSOCKS_ENCRYPTION_METHODS) } |->
      IF IsStdBase64(credential.password)
        THEN [ok |-> TRUE, bytes |-> StdBase64Decode(credential.password)]
        ELSE [ok |-> FALSE, bytes |-> <<>>] ]

\* the random byte sequences of a length that the model draws
DrawnBytes(n) == { RandomBytes(n, r) : r \in 1..MaxSeed }

\* C14: a cached Shadowsocks credential's password is padded standard base64 and
\* decodes to exactly the key length of the method recorded with it (16 bytes for
\* 2022-blake3-aes-128-gcm, 32 for 2022-blake3-aes-256-gcm), the bytes being the
\* random bytes drawn; the two methods of the program have these lengths.
C14_PasswordDecodesToKeyLength ==
  /\ \A i \in 1..Len(SHADOWSOCKS_ENCRYPTION_METHODS) :
       SHADOWSOCKS_ENCRYPTION_METHODS[i].length =
         KeyLengthOf(SHADOWSOCKS_ENCRYPTION_METHODS[i].value)
  /\ generatedShadowsocksPassword # Null =>
       /\ generatedShadowsocksPassword \in DOMAIN PasswordBytes
       /\ LET decoded == PasswordBytes[generatedShadowsocksPassword]
              keyLength == KeyLengthOf(generatedShadowsocksPassword.encryptionMethod)
          IN  /\ decoded.ok
              /\ Len(decoded.bytes) = keyLength
              /\ decoded.bytes \in DrawnBytes(keyLength)

\* C14 witness: a password has been generated for 2022-blake3-aes-256-gcm and is 44
\* characters of base64 ending in one '='
C14_Witness ==
  /\ generatedShadowsocksPassword # Null
  /\ generatedShadowsocksPassword.encryptionMethod = "2022-blake3-aes-256-gcm"
  /\ Len(generatedShadowsocksPassword.password) = 44
  /\ StdBase64Pads(generatedShadowsocksPassword.password) = 1
  /\ lastOp.kind = "shadowsocksPassword"
  /\ lastOp.outcome = "success"

\* every byte is encoded as two lowercase hex digits that stand for it
HexByteIsTwoDigits ==
  \A byte \in 0..255 :
    /\ Len(HexByte(byte)) = 2
    /\ IsLowerHex(HexByte(byte))
    /\ HexDecode(HexByte(byte)) = << byte >>

\* C15: every byte, also one below 0x10, is encoded as two lowercase hex digits, and
\* a cached short id is 16 characters in 0-9a-f that stand for the 8 random bytes
\* drawn.
C15_ShortIdIsSixteenHexDigits ==
  /\ HexByteIsTwoDigits
  /\ generatedShortId # <<>> =>
       /\ Len(generatedShortId) = 16
       /\ IsLowerHex(generatedShortId)
       /\ HexDecode(generatedShortId) \in DrawnBytes(8)

\* C15 witness: the cached short id encodes a byte below 0x10, with its leading zero
C15_Witness ==
  /\ generatedShortId # <<>>
  /\ \E j \in 1..8 :
       /\ HexDecode(generatedShortId)[j] < 16
       /\ generatedShortId[(2 * j) - 1] = "0"
  /\ lastOp.kind = "shortId"
  /\ lastOp.outcome = "success"


(***************************************************************************)
(* Inbound-tag extraction, under SpecForm.  The reference definitions walk *)
(* the parsed document element by element.                                 *)
(***************************************************************************)
\* the step in which the debounce timer fires on the text `debounced.value`
ExtractionStep == debounced # Null /\ lastOp'.op = "extract"

\* the parsed document is an object with a member 'inbounds' that is an array; its elements
InboundsMembers(text) ==
  LET parsed == JsonParse(text)
  IN  IF parsed.ok /\ parsed.val.t = "obj"
        THEN SelectSeq(parsed.val.v, LAMBDA m : m.k = INBOUNDS_KEY /\ m.v.t = "arr")
        ELSE <<>>
HasInboundsArray(text) == InboundsMembers(text) # <<>>
InboundsArray(text) == InboundsMembers(text)[1].v.v

\* the element is an object with a member 'tag' whose value is a string
HasStringTag(element) ==
  /\ element.t = "obj"
  /\ \E i \in 1..Len(element.v) : element.v[i].k = TAG_KEY /\ element.v[i].v.t = "str"
StringTag(element) ==
  element.v[CHOOSE i \in 1..Len(element.v) : element.v[i].k = TAG_KEY].v.v

RECURSIVE NonEmptyTags(_)
NonEmptyTags(elements) ==
  IF elements = <<>> THEN <<>>
  ELSE IF HasStringTag(Head(elements)) /\ StringTag(Head(elements)) # <<>>
    THEN << StringTag(Head(elements)) >> \o NonEmptyTags(Tail(elements))
    ELSE NonEmptyTags(Tail(elements))

RECURSIVE NonBlankTags(_)
NonBlankTags(elements) ==
  IF elements = <<>> THEN <<>>
  ELSE IF HasStringTag(Head(elements)) /\ ~IsBlank(StringTag(Head(elements)))
    THEN << StringTag(Head(elements)) >> \o NonBlankTags(Tail(elements))
    ELSE NonBlankTags(Tail(elements))

HasNullElement(elements) == \E i \in 1..Len(elements) : elements[i].t = "null"

\* what the two readings of the tag filter yield on each document of the model with an
\* 'inbounds' array, computed once
TagsByReading ==
  [ text \in Documents |->
      IF HasInboundsArray(text)
        THEN [ array |-> TRUE,
               nonEmpty |-> NonEmptyTags(InboundsArray(text)),
               nonBlank |-> NonBlankTags(InboundsArray(text)),
               nullElement |-> HasNullElement(InboundsArray(text)) ]
        ELSE [ array |-> FALSE, nonEmpty |-> <<>>, nonBlank |-> <<>>, nullElement |-> FALSE ] ]

\* C16 as stated: on a document with an 'inbounds' array the extraction yields, in document
\* order, the tags of exactly the elements whose tag is a non-empty string
C16_TagsOfNonEmptyStrings ==
  [][ ExtractionStep /\ TagsByReading[debounced.value].array
        => inboundTags' = TagsByReading[debounced.value].nonEmpty ]_vars

\* C16: on a document with an 'inbounds' array none of whose elements is null the
\* extraction yields, in document order, the tags of exactly the elements whose tag is a
\* string with a character that is not whitespace; with a null element it yields no tag
C16_TagsOfNonBlankStrings ==
  [][ ExtractionStep /\ TagsByReading[debounced.value].array
        => inboundTags' = IF TagsByReading[debounced.value].nullElement
                            THEN <<>>
                            ELSE TagsByReading[debounced.value].nonBlank ]_vars

\* the extraction ran on the document with the tags "B", " ", "A" and 7 and yielded "B", "A"
C16_Witness ==
  /\ lastOp.op = "extract"
  /\ debounced = Null
  /\ formValues.config = TypedDocuments[2]
  /\ TagsByReading[formValues.config].array
  /\ inboundTags = << << "B" >>, << "A" >> >>

\* C17: on a text that does not parse, or parses without an 'inbounds' member, or whose
\* 'inbounds' is not an array, the extraction sets the tag list to empty, raises no error
\* and notifies nobody, and changes no generation state, no cache entry and no form value
C17_NoInboundsGivesNoTags ==
  [][ ExtractionStep /\ ~TagsByReading[debounced.value].array
        => /\ inboundTags' = <<>>
           /\ ~lastOp'.thrown
           /\ lastOp'.toasts = 0
           /\ UNCHANGED << isDialogOpen, flags, cache, results, selectors,
                           isVlessAdvancedModalOpen, pending, generationCalls, formValues,
                           editingCore, mutation >> ]_vars

\* the extraction ran on the text that does not parse, while a short id was cached, and its
\* catch block left no tags
C17_Witness ==
  /\ lastOp.op = "extract"
  /\ lastOp.outcome = "caught"
  /\ debounced = Null
  /\ formValues.config = TypedDocuments[4]
  /\ ~JsonParse(TypedDocuments[4]).ok
  /\ generatedShortId # <<>>
  /\ inboundTags = <<>>

\* C18: once the edits of the text have settled (no call of debouncedConfigChange is
\* pending) the tag list is the extraction of the current text of the form, for every text
\* including the empty one
C18_SettledTagsMatchText ==
  debounced = Null => inboundTags = ExtractedTags[formValues.config].tags

\* what does hold: the settled tag list is the extraction of the current text whenever
\* that text is not empty (the watch effect does not call debouncedConfigChange on '')
SettledTagsMatchNonEmptyText ==
  debounced = Null /\ formValues.config # <<>>
    => inboundTags = ExtractedTags[formValues.config].tags

(***************************************************************************)
(* The form and the generated credentials, under SpecForm                  *)
(***************************************************************************)
\* a list-valued form value, with no value read as the empty list
ListOf(fieldValue) == IF fieldValue = Undefined THEN <<>> ELSE fieldValue.value

\* the body of the save request as a function of the form values alone
PayloadOf(values) ==
  [ name |-> values.name,
    config |-> JsonParse(values.config).val,
    fallbacks_inbound_tags |-> ListOf(values.fallback_id),
    exclude_inbound_tags |-> ListOf(values.excluded_inbound_ids),
    core_type |-> values.core_type ]

\* C19: a view, generation or regeneration of any credential kind, and the completion of
\* one, changes no form value; and the request that a save sends has the body PayloadOf of
\* the form values, with restart_nodes of the form as the parameter of a modification, so
\* nothing of it comes from a cached or displayed credential
C19_FormAndCredentialsApart ==
  [][ /\ lastOp'.kind \in Kinds => formValues' = formValues
      /\ lastOp'.op = "submit" /\ lastOp'.outcome = "pending"
           => /\ mutation'.data = PayloadOf(formValues)
              /\ mutation'.kind = IF editingCore = Null THEN "create" ELSE "modify"
              /\ mutation'.kind = "modify"
                   => /\ mutation'.coreId = editingCore.id
                      /\ mutation'.params =
                           [restart_nodes |-> IF formValues.restart_nodes = Undefined
                                                THEN TRUE
                                                ELSE formValues.restart_nodes.value] ]_vars

\* a save was sent for an edited core while a generated key pair was cached and displayed
C19_Witness ==
  /\ lastOp.op = "submit"
  /\ mutation # Null
  /\ mutation.kind = "modify"
  /\ generatedKeyPair # Null
  /\ resultData = generatedKeyPair
  /\ formValues.config = CORE_CONFIG

(***************************************************************************)
(* Independence of the credential kinds, under Spec                        *)
(***************************************************************************)
\* the handlers a user triggers a generation with
UserTriggers == {"view", "regenerate", "generate"}

\* C20: the cache entry of a kind changes only in the step in which a generation of that
\* kind ends in success, and a generation of a kind is only started by a handler the user
\* triggers; a view, generation, regeneration or completion of one kind leaves the cache
\* entries and the in-progress flags of every other kind as they were
C20_KindsAreIndependent ==
  [][ \A kind \in Kinds :
        /\ Generated(kind)' # Generated(kind)
             => lastOp'.kind = kind /\ lastOp'.outcome = "success"
        /\ generationCalls'[kind] # generationCalls[kind]
             => lastOp'.kind = kind /\ lastOp'.op \in UserTriggers
        /\ lastOp'.kind = kind
             => \A other \in Kinds \ {kind} :
                  /\ Generated(other)' = Generated(other)
                  /\ IsGenerating(other)' = IsGenerating(other) ]_vars

\* a key pair was just generated while a short id was cached and an ML-DSA-65 generation
\* was in flight with its flag set
C20_Witness ==
  /\ lastOp.kind = "keyPair"
  /\ lastOp.outcome = "success"
  /\ generatedKeyPair # Null
  /\ generatedShortId # <<>>
  /\ isGeneratingMldsa65
  /\ InFlight("mldsa65") > 0

(***************************************************************************)
(* The cached key pair, under Spec                                         *)
(***************************************************************************)
\* the two strings of each X25519 pair one call of generateKeyPair can return: the secret
\* key and the public key that scalarMultBase derives from it, in unpadded URL-safe base64
PairsOfOneCall ==
  { [ privateKey |-> StripPadding(Base64(RandomBytes(X25519_KEY_BYTES, r), BASE64_URL)),
      publicKey  |-> StripPadding(Base64(X25519ScalarMultBase(RandomBytes(X25519_KEY_BYTES, r)),
                                         BASE64_URL)) ] : r \in 1..MaxSeed }

\* C21: the cached key pair is absent, or has a non-empty privateKey and a non-empty
\* publicKey that are the two keys of one X25519 pair of one generation call
C21_KeyPairWhole ==
  generatedKeyPair # Null
    => /\ DOMAIN generatedKeyPair = {"privateKey", "publicKey"}
       /\ generatedKeyPair.privateKey # <<>>
       /\ generatedKeyPair.publicKey # <<>>
       /\ generatedKeyPair \in PairsOfOneCall

\* a key pair was generated and then regenerated, and the second pair is cached
C21_Witness ==
  /\ lastOp.op = "regenerate"
  /\ lastOp.kind = "keyPair"
  /\ lastOp.outcome = "success"
  /\ generationCalls["keyPair"] = 2
  /\ generatedKeyPair # Null
  /\ generatedKeyPair = KeyPairDraws[2]

(***************************************************************************)
(* The results dialog and the cache, under Spec                            *)
(***************************************************************************)
\* C22: whenever a result type is set, the result data is the value cached for that kind
\* (for the short id, the cached string wrapped as {shortId})
C22_ResultIsCachedValue ==
  resultType # NoType => resultData = Display(resultType)

\* of three ML-DSA-65 generations two have completed, the last of them just now, and its
\* result is shown while the remaining one is still in flight
C22_Witness ==
  /\ lastOp.op = "complete"
  /\ lastOp.kind = "mldsa65"
  /\ lastOp.outcome = "success"
  /\ mldsa65Pending = 1
  /\ generationCalls["mldsa65"] = 3
  /\ isResultsDialogOpen
  /\ resultType = "mldsa65"
  /\ resultData = generatedMldsa65

\* C23: while the configuration dialog is closed the results dialog is closed and no
\* result type or result data is set, also when a generation that was in flight at the
\* close completes afterwards
C23_NoResultWhileClosed ==
  ~isDialogOpen => ~isResultsDialogOpen /\ resultType = NoType /\ resultData = Null

(***************************************************************************)
(* The Shadowsocks password and the method selector, under Spec            *)
(***************************************************************************)
\* C24: when a view has just shown a cached Shadowsocks password, the password decodes to
\* as many bytes as the key of the method now selected in the method selector has
C24_ShownPasswordFitsSelectedMethod ==
  lastOp.op = "view" /\ lastOp.kind = "shadowsocksPassword" /\ lastOp.outcome = "shown"
    => /\ resultData \in DOMAIN PasswordBytes
       /\ Len(PasswordBytes[resultData].bytes) = KeyLengthOf(selectedEncryptionMethod)

\* C25: for every kind the in-progress flag is set exactly while a generation of that kind
\* is in flight
C25_FlagIffInFlight ==
  \A k \in Kinds : IsGenerating(k) <=> InFlight(k) > 0

(***************************************************************************)
(* Segment structure of the encoder's output, under SpecEnc                *)
(***************************************************************************)
DotsOf(str) == { i \in 1..Len(str) : str[i] = "." }

\* no segment between the dots of str, before the first or after the last, is empty
NoEmptySegment(str) ==
  /\ str # <<>>
  /\ str[1] # "." /\ str[Len(str)] # "."
  /\ \A i \in DotsOf(str) : i + 1 \notin DotsOf(str)

\* the segments an application of the encoder should have: four and the padding pieces
ExpectedSegments(a) == 4 + Len(PaddingPieces(a.includePadding, a.paddingValue))

\* C26: every output of the encoder has no empty segment and has exactly 4 + n segments,
\* n being the number of padding pieces the role contributes, for every ticket string
\* that can be typed, a ticket containing '.' included
C26_SegmentCount ==
  bcOut # Null =>
    /\ NoEmptySegment(bcOut.value)
    /\ Cardinality(DotsOf(bcOut.value)) + 1 = ExpectedSegments(bcArgs)

\* the same for the tickets that contain no '.'
SegmentCountOfDotFreeTickets ==
  (bcOut # Null /\ DotsOf(bcArgs.ticketValue) = {}) =>
    /\ NoEmptySegment(bcOut.value)
    /\ Cardinality(DotsOf(bcOut.value)) + 1 = ExpectedSegments(bcArgs)

(***************************************************************************)
(* Separation of the two roles in the encoding of a VLESS result, under    *)
(* SpecVless                                                               *)
(***************************************************************************)
\* the options with one client-role option replaced, and with one server-role option
\* replaced
ClientRoleEdits(options) ==
  { [options EXCEPT !.clientTicket = t] : t \in VrClientTicketInputs }
    \cup { [options EXCEPT !.clientPadding = p] : p \in VrPaddingInputs }
    \cup { [options EXCEPT !.includeClientPadding = b] : b \in BOOLEAN }

ServerRoleEdits(options) ==
  { [options EXCEPT !.serverTicket = t] : t \in VrServerTicketInputs }
    \cup { [options EXCEPT !.serverPadding = p] : p \in VrPaddingInputs }
    \cup { [options EXCEPT !.includeServerPadding = b] : b \in BOOLEAN }

\* C27: the roles are kept apart: with the key material kept, replacing a client-role
\* option (client ticket, client padding, client padding flag) leaves the decryption
\* strings of both variants as they are, and replacing a server-role option (server
\* ticket, server padding, server padding flag) leaves the encryption strings of both
\* variants as they are; the decryption strings end in the server tokens and the
\* encryption strings in the client tokens
C27_RolesApart ==
  vrOut # Null =>
    /\ \A edited \in ClientRoleEdits(vrOptions) :
         LET other == VlessResultData(edited, VlessKeyDraws[vrDraw])
         IN  /\ other.x25519.decryption = vrOut.x25519.decryption
             /\ other.mlkem768.decryption = vrOut.mlkem768.decryption
    /\ \A edited \in ServerRoleEdits(vrOptions) :
         LET other == VlessResultData(edited, VlessKeyDraws[vrDraw])
         IN  /\ other.x25519.encryption = vrOut.x25519.encryption
             /\ other.mlkem768.encryption = vrOut.mlkem768.encryption
    /\ LastSegment(vrOut.x25519.decryption) = VlessKeyDraws[vrDraw].x25519ServerKey
    /\ LastSegment(vrOut.mlkem768.decryption) = VlessKeyDraws[vrDraw].mlkem768ServerKey
    /\ LastSegment(vrOut.x25519.encryption) = VlessKeyDraws[vrDraw].x25519ClientKey
    /\ LastSegment(vrOut.mlkem768.encryption) = VlessKeyDraws[vrDraw].mlkem768ClientKey

\* C27 witness: the client padding flag has been set on a result whose roles differ in
\* ticket and padding; the encryption strings changed and the decryption strings did not
C27_Witness ==
  /\ vrPrev # Null
  /\ vrOptions.includeClientPadding
  /\ vrOptions.includeServerPadding
  /\ vrOptions.serverPadding = <<"1", ".", "2">>
  /\ vrOptions.clientPadding = DEFAULT_VLESS_PADDING
  /\ vrOptions.serverTicket = DEFAULT_VLESS_SERVER_TICKET
  /\ vrOut.x25519.encryption # vrPrev.x25519.encryption
  /\ vrOut.mlkem768.encryption # vrPrev.mlkem768.encryption
  /\ vrOut.x25519.decryption = vrPrev.x25519.decryption
  /\ vrOut.mlkem768.decryption = vrPrev.mlkem768.decryption

(***************************************************************************)
(* The cached VLESS result and the options it was built from, under Spec   *)
(***************************************************************************)
\* the four strings of result are the encoding of the options stored in it with the
\* tokens of the r-th outcome of the random draws
EncodesOwnSnapshot(result, r) ==
  /\ result.x25519.decryption
       = ExpectedUpToToken(result.options, "decryption") \o CallTokens[r].secret
  /\ result.x25519.encryption
       = ExpectedUpToToken(result.options, "encryption") \o CallTokens[r].public
  /\ result.mlkem768.decryption
       = ExpectedUpToToken(result.options, "decryption") \o CallTokens[r].seed
  /\ result.mlkem768.encryption
       = ExpectedUpToToken(result.options, "encryption") \o CallTokens[r].client

\* C28: a cached VLESS result always carries the encoding of the options stored in it
\* with the key material of one call; a step that changes the builder options leaves
\* the cached result (strings and stored options) as it is, and a step that stores a
\* result stores the options of the call that produced it, as they were when the call
\* started
C28_ResultEncodesItsSnapshot ==
  [][ /\ generatedVLESS' # Null =>
           \E r \in 1..MaxSeed : EncodesOwnSnapshot(generatedVLESS', r)
      /\ vlessOptions' # vlessOptions => generatedVLESS' = generatedVLESS
      /\ generatedVLESS' # generatedVLESS =>
           /\ vlessPending # <<>>
           /\ generatedVLESS'.options = Head(vlessPending).options
           /\ EncodesOwnSnapshot(generatedVLESS', Head(vlessPending).draw) ]_vars

\* C28 witness: the derivation of a call started with edited options has settled after
\* the options were edited again, and the result carries the options of the call
C28_Witness ==
  /\ lastOp = Op("complete", "vlessEncryption", "success")
  /\ isDialogOpen
  /\ generationCalls["vlessEncryption"] = 1
  /\ edits = 2
  /\ generatedVLESS # Null
  /\ generatedVLESS.options # createDefaultVlessOptions
  /\ generatedVLESS.options # vlessOptions
  /\ vlessOptions # createDefaultVlessOptions

\* C29: on a document with an 'inbounds' array the extraction yields the tag of every
\* element whose tag is a string with a character that is not whitespace, whatever the
\* other elements of the array are, a null element included
C29_OtherElementsDoNotMatter ==
  [][ ExtractionStep /\ TagsByReading[debounced.value].array
        => inboundTags' = TagsByReading[debounced.value].nonBlank ]_vars

\* C30: while the configuration dialog is closed the VLESS builder options are the
\* defaults and the variant is 'x25519', and they are right after the dialog is reopened
C30_DefaultsWhileClosed ==
  [][ /\ ~isDialogOpen' =>
           vlessOptions' = createDefaultVlessOptions /\ selectedVlessVariant' = "x25519"
      /\ (~isDialogOpen /\ isDialogOpen') =>
           vlessOptions' = createDefaultVlessOptions /\ selectedVlessVariant' = "x25519" ]_vars

=============================================================================
